---- MODULE Spec2Model ----
(***************************************************************************)
(* Model of the job execution core of act (pkg/runner): RunContext's       *)
(* Executor entry point, the job container / host environment life cycle   *)
(* with its service containers, the reusable-workflow fetch guarded by the *)
(* process-wide executorLock, and the remote-action step's                 *)
(* prepareActionExecutor.                                                  *)
(*                                                                         *)
(* The specifications share the actions:                                   *)
(*   Spec       one Run Context driven from Executor() to teardown;        *)
(*   SpecFetch  several concurrent callers of the two fetch paths          *)
(*              (reusable-workflow executors and remote-action steps);     *)
(*   SpecRefs   jobs and steps over references of every shape;             *)
(*   SpecStart  the start of the job container or host environment;        *)
(*   SpecEnv    calls of the Run Context's accessors;                      *)
(*   SpecStages the pre, main and post stage of one remote-action step;    *)
(*   SpecTwins  two remote-action steps run side by side;                  *)
(*   SpecNames  the container names of two Run Contexts;                   *)
(*   SpecStatus the job status of a Run Context with step results;         *)
(*   SpecRestart a Run Context whose environment is started again;         *)
(*   SpecLock   reusable-workflow callers of the fetch lock, nested.       *)
(***************************************************************************)
EXTENDS Integers, Sequences, FiniteSets, TLC

\* Number of concurrently running callers (jobs / steps) in SpecFetch.
NumProcs == 2

Procs == 1..NumProcs

\* Service ids a job may declare under `services:`.
ServiceIds == {"db", "cache"}

\* Config.ContainerNetworkMode as given by the caller.
ContainerNetworkMode == "host"

\* jobContainerName() of the modelled Run Context, and the derived names.
JobName == "WORKFLOW-ci_JOB-build"

NetworkNameOf(name) == name \o "-network"

Nil == "nil"

VARIABLES
    cfg,                 \* per caller: job / step definition and Config (inputs)
    pc,                  \* per caller: position in its executor
    result,              \* per caller: what Executor() / the stage returned
    executorLock,        \* holder of the process-wide sync.Mutex, 0 = free
    dirExists,           \* cache directory -> present on disk
    dirInit,             \* cache directory -> present before the run (history)
    remoteAction,        \* per caller: sar.remoteAction is set
    action,              \* per caller: sar.action is set
    stage,               \* per caller: step stage being run ("pre" / "main" / "post")
    hist,                \* recorded observations of the stub fetcher / runner
    JobContainer,        \* rc.JobContainer
    ServiceContainers,   \* rc.ServiceContainers (list of handles)
    cleanUpJobContainer, \* rc.cleanUpJobContainer
    jobOp,               \* recording stub driver: job-level operation -> status
    svcOp,               \* recording stub driver: per service handle operation -> status
    network,             \* name of the network the driver created, or Nil
    scratchDir,          \* host environment's private directory
    files,               \* files copied into the environment's state path
    stopResult,          \* what stopContainer() returned
    environ,             \* os.Environ(): the process environment, "key=value" entries
    StepResults,         \* per Run Context: step id -> result of the step
    layers,              \* per caller: Run.Workflow.Env, job.Environment(), Config.Env
    Env,                 \* per caller: rc.Env
    ExtraPath,           \* per caller: rc.ExtraPath
    compositeRunContext, \* per caller: sar.compositeRunContext and sar.compositeSteps
    ContainerDaemonSocket, \* per caller: rc.Config.ContainerDaemonSocket
    calls                \* per caller: what the accessors returned, in call order

procVars == <<cfg, pc, result, remoteAction, action, stage>>
fetchVars == <<executorLock, dirExists, dirInit, hist>>
containerVars == <<JobContainer, ServiceContainers, cleanUpJobContainer, jobOp,
                   svcOp, network, scratchDir, files, stopResult>>
ctxVars == <<environ, StepResults, layers, Env, ExtraPath, compositeRunContext,
             ContainerDaemonSocket, calls>>

vars == <<procVars, fetchVars, containerVars, ctxVars>>

(***************************************************************************)
(* Inputs                                                                  *)
(***************************************************************************)
JobTypes == {"Default", "ReusableWorkflowLocal", "ReusableWorkflowRemote"}

\* Raw text of job.If.Value in the modelled workflows.
IfExprs == {"true", "false", "${{ fromJSON( }}"}

\* Outcome of EvalBool on job.If.Value.
IfResults == {"true", "false", "error"}

\* The expression evaluator on the modelled conditions: the third one does not parse.
EvalBool(expr) ==
    CASE expr = "true" -> "true"
      [] expr = "false" -> "false"
      [] OTHER -> "error"

(***************************************************************************)
(* Strings are sequences of characters                                     *)
(***************************************************************************)
\* No `uses` key.
NoUses == <<>>

UsesHello ==
    <<"o", "c", "t", "o", "c", "a", "t", "/", "h", "e", "l", "l", "o", "@", "v", "1">>

UsesNotARef ==
    <<"n", "o", "t", "-", "a", "-", "v", "a", "l", "i", "d", "-", "r", "e", "f">>

UsesCi ==
    <<"o", "c", "t", "o", "c", "a", "t", "/", "h", "e", "l", "l", "o", "-", "w", "o",
      "r", "l", "d", "/", ".", "g", "i", "t", "h", "u", "b", "/", "w", "o", "r", "k",
      "f", "l", "o", "w", "s", "/", "c", "i", ".", "y", "m", "l", "@", "v", "1">>

UsesNoWorkflow ==
    <<"o", "c", "t", "o", "c", "a", "t", "/", "h", "e", "l", "l", "o", "-", "w", "o",
      "r", "l", "d", "@", "v", "1">>

UsesLocalBuild ==
    <<".", "/", ".", "g", "i", "t", "e", "a", "/", "w", "o", "r", "k", "f", "l", "o",
      "w", "s", "/", "b", "u", "i", "l", "d", ".", "y", "m", "l">>

UsesLocalPlain ==
    <<".", "/", "b", "u", "i", "l", "d", ".", "y", "m", "l">>

UsesCheckout ==
    <<"a", "c", "t", "i", "o", "n", "s", "/", "c", "h", "e", "c", "k", "o", "u", "t",
      "@", "v", "4">>

\* Short references every single-character edit of which is tried.
SeedAction == <<"o", "/", "r", "/", "p", "@", "v">>
SeedActionURL == <<"h", "t", "t", "p", ":", "/", "/", "h", "/", "o", "/", "r", "@", "v">>
SeedWorkflow ==
    <<"o", "/", "r", "/", ".", "p", "/", "w", "o", "r", "k", "f", "l", "o", "w", "s",
      "/", "f", "@", "v">>
SeedLocal ==
    <<".", "/", ".", "p", "/", "w", "o", "r", "k", "f", "l", "o", "w", "s", "/", "f">>

\* Characters an edit puts in: a plain one, the separators and a line break.
EditChars == {"a", "/", "@", ".", ":", "\n"}

\* s itself and every string one deletion, substitution or insertion away from it.
Edits(s) ==
    LET n == Len(s)
    IN  {s}
          \cup {SubSeq(s, 1, i - 1) \o SubSeq(s, i + 1, n) : i \in 1..n}
          \cup {[s EXCEPT ![i] = ch] : i \in 1..n, ch \in EditChars}
          \cup {SubSeq(s, 1, i) \o <<ch>> \o SubSeq(s, i + 1, n) : i \in 0..n, ch \in EditChars}

\* Longest string of the exhaustive part of the references.
MaxRefLen == 3

\* Every string over a plain character and the two separators, up to MaxRefLen long.
ShortRefs == UNION {[1..n -> {"a", "/", "@"}] : n \in 1..MaxRefLen}

\* `uses` strings of steps, of remote and of local reusable-workflow jobs, well-formed
\* and malformed.
ActionRefs ==
    {UsesHello, UsesNotARef, UsesNoWorkflow, UsesCi} \cup Edits(SeedAction)
      \cup Edits(SeedActionURL) \cup ShortRefs
WorkflowRefs == {UsesCi, UsesNoWorkflow, UsesHello} \cup Edits(SeedWorkflow) \cup ShortRefs
LocalRefs == {UsesLocalBuild, UsesLocalPlain} \cup Edits(SeedLocal)

\* Raw `uses` strings of the modelled workflows.
StepUses == {NoUses, UsesHello, UsesNotARef}
RemoteJobUses == {UsesCi, UsesNoWorkflow}
LocalJobUses == {UsesLocalBuild, UsesLocalPlain}

\* PresetGitHubContext.Repository and .Sha of the caller's checkout.
PresetRepository ==
    <<"o", "c", "t", "o", "c", "a", "t", "/", "h", "e", "l", "l", "o", "-", "w", "o",
      "r", "l", "d">>
PresetSha == <<"a", "b", "c", "1", "2", "3">>

SelfHosted == "-self-hosted"

CloneResults == {"ok", "shortRef", "forceNeeded", "error"}

\* strings.HasPrefix / strings.TrimPrefix
HasPrefix(s, pre) == Len(s) >= Len(pre) /\ SubSeq(s, 1, Len(pre)) = pre

TrimPrefix(s, pre) == IF HasPrefix(s, pre) THEN SubSeq(s, Len(pre) + 1, Len(s)) ELSE s

\* Position of the first character of s at or after `from` that is in set, Len(s) + 1 if
\* there is none.
IndexIn(s, set, from) ==
    LET hits == {i \in from..Len(s) : s[i] \in set}
    IN  IF hits = {} THEN Len(s) + 1 ELSE CHOOSE i \in hits : \A j \in hits : i <= j

\* `.` of a regular expression does not match a line break.
NoLineBreak(s) == \A i \in 1..Len(s) : s[i] # "\n"

(***************************************************************************)
(* Reference Resolver and Source Cache keys                                *)
(***************************************************************************)
\* strings.TrimPrefix(uses, "./") then "%s/%s@%s" with the caller's repository and sha.
LocalUses(uses) ==
    PresetRepository \o <<"/">> \o TrimPrefix(uses, <<".", "/">>) \o <<"@">> \o PresetSha

\* The nil *remoteReusableWorkflow and the nil *remoteAction (a match has a non-empty Org).
NoWorkflow == [Org |-> <<>>, Repo |-> <<>>, GitPlatform |-> <<>>, Filename |-> <<>>, Ref |-> <<>>]

NoAction == [URL |-> <<>>, Org |-> <<>>, Repo |-> <<>>, Path |-> <<>>, Ref |-> <<>>]

WorkflowsDir == <<"w", "o", "r", "k", "f", "l", "o", "w", "s", "/">>
\* ^([^/]+)/([^/]+)/\.([^/]+)/workflows/([^@]+)@(.*)$ : the first two `/` end Org and
\* Repo, the next `/` ends GitPlatform, the first `@` of the rest ends Filename.
newRemoteReusableWorkflow(uses) ==
    LET n  == Len(uses)
        i1 == IndexIn(uses, {"/"}, 1)
        i2 == IndexIn(uses, {"/"}, i1 + 1)
        i3 == IndexIn(uses, {"/"}, i2 + 2)
        f0 == i3 + 1 + Len(WorkflowsDir)
        i4 == IndexIn(uses, {"@"}, f0)
    IN  IF /\ 1 < i1 /\ i1 + 1 < i2 /\ i2 < n
           /\ uses[i2 + 1] = "."
           /\ i2 + 2 < i3 /\ i3 <= n
           /\ f0 - 1 <= n
           /\ SubSeq(uses, i3 + 1, f0 - 1) = WorkflowsDir
           /\ f0 < i4 /\ i4 <= n
           /\ NoLineBreak(SubSeq(uses, i4 + 1, n))
        THEN [Org |-> SubSeq(uses, 1, i1 - 1), Repo |-> SubSeq(uses, i1 + 1, i2 - 1),
              GitPlatform |-> SubSeq(uses, i2 + 2, i3 - 1),
              Filename |-> SubSeq(uses, f0, i4 - 1), Ref |-> SubSeq(uses, i4 + 1, n)]
        ELSE NoWorkflow
\* parseAction without the test for an empty ref.
parseActionAnyRef(act) ==
    LET n  == Len(act)
        i1 == IndexIn(act, {"/", "@"}, 1)
        i2 == IndexIn(act, {"/", "@"}, i1 + 1)
        i3 == IF i2 <= n /\ act[i2] = "/" THEN IndexIn(act, {"@"}, i2 + 1) ELSE i2
    IN  IF /\ 1 < i1 /\ i1 <= n /\ act[i1] = "/"
           /\ i1 + 1 < i2
           /\ i3 <= n + 1
           /\ NoLineBreak(SubSeq(act, i3 + 1, n))
        THEN [URL |-> <<>>, Org |-> SubSeq(act, 1, i1 - 1),
              Repo |-> SubSeq(act, i1 + 1, i2 - 1),
              Path |-> SubSeq(act, i2 + 1, i3 - 1), Ref |-> SubSeq(act, i3 + 1, n)]
        ELSE NoAction

\* ^([^/@]+)/([^/@]+)(/([^@]*))?(@(.*))?$ and the test that the ref is not empty.
parseAction(act) ==
    LET n  == Len(act)
        i1 == IndexIn(act, {"/", "@"}, 1)
        i2 == IndexIn(act, {"/", "@"}, i1 + 1)
        i3 == IF i2 <= n /\ act[i2] = "/" THEN IndexIn(act, {"@"}, i2 + 1) ELSE i2
    IN  IF /\ 1 < i1 /\ i1 <= n /\ act[i1] = "/"
           /\ i1 + 1 < i2
           /\ i3 < n
           /\ NoLineBreak(SubSeq(act, i3 + 1, n))
        THEN [URL |-> <<>>, Org |-> SubSeq(act, 1, i1 - 1),
              Repo |-> SubSeq(act, i1 + 1, i2 - 1),
              Path |-> SubSeq(act, i2 + 1, i3 - 1), Ref |-> SubSeq(act, i3 + 1, n)]
        ELSE NoAction

Schemas == << <<"h", "t", "t", "p", "s", ":", "/", "/">>, <<"h", "t", "t", "p", ":", "/", "/">> >>

\* An explicit http(s)://host/ prefix is split off and kept as URL; the rest is parsed.
newRemoteAction(uses) ==
    LET with == {k \in 1..Len(Schemas) : HasPrefix(uses, Schemas[k])}
    IN  IF with = {} THEN parseAction(uses)
        ELSE LET schema == Schemas[CHOOSE k \in with : \A j \in with : k <= j]
                 rest == TrimPrefix(uses, schema)
                 cut == IndexIn(rest, {"/"}, 1)
                 ret == parseAction(SubSeq(rest, cut + 1, Len(rest)))
             IN  IF cut > Len(rest) \/ ret = NoAction THEN NoAction
                 ELSE [ret EXCEPT !.URL = schema \o SubSeq(rest, 1, cut - 1)]

\* Characters strings.NewReplacer turns into "-".
UnsafeChars == {"<", ">", ":", "\"", "/", "\\", "|", "?", "*"}

safeFilename(s) == [i \in 1..Len(s) |-> IF s[i] \in UnsafeChars THEN "-" ELSE s[i]]

\* Cache directories of the modelled references.
Dirs == {safeFilename(UsesHello), safeFilename(UsesCi), safeFilename(LocalUses(UsesLocalBuild))}

\* The reference string a reusable-workflow job resolves.
JobUses(c) == IF c.jobType = "ReusableWorkflowLocal" THEN LocalUses(c.uses) ELSE c.uses

\* The cache directory a caller's reference maps to (below ActionCacheDir()).
TargetDir(c) == IF c.jobType = "Default" THEN safeFilename(c.uses) ELSE safeFilename(JobUses(c))

\* The caller's reference parses, so that a cache directory is looked at.
Resolvable(c) ==
    IF c.jobType = "Default" THEN newRemoteAction(c.uses) # NoAction
    ELSE newRemoteReusableWorkflow(JobUses(c)) # NoWorkflow

(***************************************************************************)
(* Expression interpolation, on the modelled texts                         *)
(***************************************************************************)
\* rc.ExprEval.Interpolate: an expression is replaced by its value, which is empty for
\* an undefined secret or matrix entry; a literal stays as it is.
Interpolate(text) ==
    CASE text = "${{ secrets.PW }}" -> "hunter2"
      [] text = "${{ secrets.NONE }}" -> ""
      [] text = "${{ matrix.image }}" -> "alpine:3"
      [] text = "${{ matrix.none }}" -> ""
      [] OTHER -> text

(***************************************************************************)
(* Registry credentials                                                    *)
(***************************************************************************)
\* Kinds of `credentials:` blocks the jobs of the main specification declare.
CredKinds == {"nil", "both", "userOnly"}

\* All modelled kinds of `credentials:` blocks.
AllCredKinds ==
    CredKinds \cup {"passOnly", "secretBoth", "secretMissing", "userKeyOnly", "threeKeys",
                    "empty"}

\* The map[string]string behind a kind; isNil tells the nil map from the empty one.
Credentials(kind) ==
    CASE kind = "nil" -> [isNil |-> TRUE, m |-> <<>>]
      [] kind = "both" -> [isNil |-> FALSE, m |-> [username |-> "user", password |-> "pw"]]
      [] kind = "userOnly" -> [isNil |-> FALSE, m |-> [username |-> "user", password |-> ""]]
      [] kind = "passOnly" -> [isNil |-> FALSE, m |-> [username |-> "", password |-> "pw"]]
      [] kind = "secretBoth" ->
           [isNil |-> FALSE, m |-> [username |-> "user", password |-> "${{ secrets.PW }}"]]
      [] kind = "secretMissing" ->
           [isNil |-> FALSE, m |-> [username |-> "user", password |-> "${{ secrets.NONE }}"]]
      [] kind = "userKeyOnly" -> [isNil |-> FALSE, m |-> [username |-> "user"]]
      [] kind = "threeKeys" ->
           [isNil |-> FALSE,
            m |-> [username |-> "user", password |-> "pw", registry |-> "ghcr.io"]]
      [] OTHER -> [isNil |-> FALSE, m |-> <<>>]

\* m[key] of a Go map: the zero value for a missing key.
MapGet(m, key) == IF key \in DOMAIN m THEN m[key] ELSE ""

\* handleServiceCredentials without the test of the interpolated password.
handleServiceCredentialsUserOnly(creds) ==
    IF creds.isNil THEN "ok"
    ELSE IF Cardinality(DOMAIN creds.m) # 2 THEN "invalid property count"
    ELSE IF Interpolate(MapGet(creds.m, "username")) = "" THEN "failed to interpolate username"
    ELSE "ok"

\* handleServiceCredentials: "ok" or the error it returns.
handleServiceCredentials(creds) ==
    IF creds.isNil THEN "ok"
    ELSE IF Cardinality(DOMAIN creds.m) # 2 THEN "invalid property count"
    ELSE IF Interpolate(MapGet(creds.m, "username")) = "" THEN "failed to interpolate username"
    ELSE IF Interpolate(MapGet(creds.m, "password")) = "" THEN "failed to interpolate password"
    ELSE "ok"

\* handleCredentials, for the job's own container spec.
handleCredentials(c) ==
    LET creds == Credentials(c.creds)
    IN  IF c.container = Nil \/ creds.isNil THEN "ok"
        ELSE IF Cardinality(DOMAIN creds.m) # 2 THEN "invalid property count"
        ELSE IF Interpolate(MapGet(creds.m, "username")) = ""
             THEN "failed to interpolate username"
        ELSE IF Interpolate(MapGet(creds.m, "password")) = ""
             THEN "failed to interpolate password"
        ELSE IF MapGet(creds.m, "username") = "" \/ MapGet(creds.m, "password") = ""
             THEN "cannot be empty"
        ELSE "ok"

(***************************************************************************)
(* Platform resolution and the job's own condition                         *)
(***************************************************************************)
\* runs-on labels of the modelled workflows.
LabelUbuntu == <<"u", "b", "u", "n", "t", "u">>
LabelUbuntuCaps == <<"U", "b", "u", "n", "t", "u">>
LabelSelf == <<"s", "e", "l", "f">>
LabelMac == <<"m", "a", "c">>
LabelMacCaps == <<"M", "A", "C">>
LabelWin == <<"w", "i", "n">>

\* A label given as an expression.
LabelExpr == <<"$", "{", "{", "o", "s", "}", "}">>

Labels ==
    {LabelUbuntu, LabelUbuntuCaps, LabelSelf, LabelMac, LabelMacCaps, LabelWin, LabelExpr}

\* Longest runs-on list.
MaxLabels == 2

\* job.RunsOn(): lists of labels in declared order.
RunsOnLists == UNION {[1..n -> Labels] : n \in 0..MaxLabels}

\* rc.ExprEval.Interpolate on a label: the expression stands for "Ubuntu".
InterpolateLabel(label) == IF label = LabelExpr THEN LabelUbuntuCaps ELSE label

\* Config.PlatformPicker: Nil when no callback is set; a callback that returns nothing,
\* one that always returns an image and one that returns an image for a "mac" label only.
Pickers == {Nil, "none", "fixed", "macOnly"}

\* pick(runsOn)
Pick(picker, runsOn) ==
    CASE picker = "fixed" -> "picked:1"
      [] picker = "macOnly" ->
           IF \E i \in 1..Len(runsOn) : runsOn[i] = LabelMac THEN "picked:mac" ELSE ""
      [] OTHER -> ""

\* Config.Platforms: label -> image. The entry of "win" is empty.
Platforms ==
    (LabelUbuntu :> "ubuntu:act") @@ (LabelSelf :> "-self-hosted")
      @@ (LabelMac :> "macos:12") @@ (LabelWin :> "")

LowerOf ==
    ("A" :> "a") @@ ("B" :> "b") @@ ("C" :> "c") @@ ("D" :> "d") @@ ("E" :> "e") @@
    ("F" :> "f") @@ ("G" :> "g") @@ ("H" :> "h") @@ ("I" :> "i") @@ ("J" :> "j") @@
    ("K" :> "k") @@ ("L" :> "l") @@ ("M" :> "m") @@ ("N" :> "n") @@ ("O" :> "o") @@
    ("P" :> "p") @@ ("Q" :> "q") @@ ("R" :> "r") @@ ("S" :> "s") @@ ("T" :> "t") @@
    ("U" :> "u") @@ ("V" :> "v") @@ ("W" :> "w") @@ ("X" :> "x") @@ ("Y" :> "y") @@
    ("Z" :> "z")

\* strings.ToLower
ToLower(s) == [i \in 1..Len(s) |-> IF s[i] \in DOMAIN LowerOf THEN LowerOf[s[i]] ELSE s[i]]

\* rc.Config.Platforms[key]
PlatformOf(key) == IF key \in DOMAIN Platforms THEN Platforms[key] ELSE ""

\* The loop over the runs-on labels: the image of the first label with a non-empty entry.
RECURSIVE FirstPlatform(_, _)
FirstPlatform(runsOn, i) ==
    IF i > Len(runsOn) THEN ""
    ELSE IF PlatformOf(ToLower(runsOn[i])) # "" THEN PlatformOf(ToLower(runsOn[i]))
    ELSE FirstPlatform(runsOn, i + 1)

\* platformImage with the picker asked before the job's container spec.
platformImagePickerFirst(c) ==
    LET runsOn == [i \in 1..Len(c.runsOn) |-> InterpolateLabel(c.runsOn[i])]
    IN  IF c.picker # Nil /\ Pick(c.picker, runsOn) # "" THEN Pick(c.picker, runsOn)
        ELSE IF c.container # Nil THEN Interpolate(c.container)
        ELSE FirstPlatform(runsOn, 1)

platformImage(c) ==
    LET runsOn == [i \in 1..Len(c.runsOn) |-> InterpolateLabel(c.runsOn[i])]
    IN  IF c.container # Nil THEN Interpolate(c.container)
        ELSE IF c.picker # Nil /\ Pick(c.picker, runsOn) # "" THEN Pick(c.picker, runsOn)
        ELSE FirstPlatform(runsOn, 1)

IsHostEnv(c) == platformImage(c) = SelfHosted

\* isEnabled with the test of the job's condition left out.
isEnabledIgnoringCondition(c) ==
    IF EvalBool(c.ifExpr) = "error" THEN "error"
    ELSE IF c.jobType # "Default" THEN "true"
    ELSE IF platformImage(c) = "" THEN "false"
    ELSE "true"

\* isEnabled with the platform image required of every kind of job.
isEnabledImageForAll(c) ==
    IF EvalBool(c.ifExpr) = "error" THEN "error"
    ELSE IF EvalBool(c.ifExpr) = "false" THEN "false"
    ELSE IF platformImage(c) = "" THEN "false"
    ELSE "true"

\* isEnabled with an evaluation error taken for a false condition.
isEnabledErrorAsFalse(c) ==
    IF EvalBool(c.ifExpr) # "true" THEN "false"
    ELSE IF c.jobType # "Default" THEN "true"
    ELSE IF platformImage(c) = "" THEN "false"
    ELSE "true"

isEnabled(c) ==
    IF EvalBool(c.ifExpr) = "error" THEN "error"
    ELSE IF EvalBool(c.ifExpr) = "false" THEN "false"
    ELSE IF c.jobType # "Default" THEN "true"
    ELSE IF platformImage(c) = "" THEN "false"
    ELSE "true"

\* Config.ReuseContainers never read as set.
ReuseContainersIgnored(c) == FALSE

ReuseContainers(c) == c.reuse

NeedCreateNetwork(c) == c.needNet

(***************************************************************************)
(* Configurations                                                          *)
(***************************************************************************)
\* The host an action is fetched from when it is replaced: "github.com".
GithubCom == <<"g", "i", "t", "h", "u", "b", ".", "c", "o", "m">>

NoCreds == [s \in ServiceIds |-> "nil"]

\* github.Repository and github.Ref of the trigger context.
GithubRepository == "octocat/hello-world"
GithubRef == "refs/heads/main"

\* A job with no step, no container spec, no label and every option off, of workflow
\* "ci" and job "build", run on a Linux host without SELinux.
BaseConfig ==
    [jobType |-> "Default", ifExpr |-> "true", uses |-> NoUses, container |-> Nil,
     picker |-> Nil, runsOn |-> <<>>, creds |-> "nil", services |-> {},
     svcCreds |-> NoCreds, needNet |-> FALSE, reuse |-> FALSE,
     withRepository |-> Nil, withRef |-> Nil, noSkipCheckout |-> FALSE,
     bindWorkdir |-> FALSE, workflowName |-> <<"c", "i">>,
     name |-> <<"b", "u", "i", "l", "d">>,
     namePrefix |-> <<>>, caller |-> <<>>, volumes |-> <<>>, goos |-> "linux",
     selinux |-> FALSE, workdir |-> <<"/", "w">>, token |-> "", replaceGhe |-> <<>>,
     replaceGheToken |-> "", defaultURLs |-> <<GithubCom>>, stepIf |-> "true",
     preIf |-> "true", postIf |-> "true", hasPre |-> FALSE, hasPost |-> FALSE,
     using |-> "node", parent |-> 0]

\* A Default job: at most one step (a remote action), an optional container spec
\* (credentials belong to it), services with their own credentials.
DefaultConfigs ==
    {c \in {[BaseConfig EXCEPT !.ifExpr = i, !.uses = u, !.container = k, !.runsOn = r,
                               !.creds = cr, !.services = sv, !.svcCreds = sc,
                               !.needNet = n, !.reuse = re] :
              i \in IfExprs, u \in StepUses, k \in {Nil, "node:16"},
              r \in {<<>>, <<LabelSelf>>, <<LabelUbuntu>>}, cr \in CredKinds,
              sv \in SUBSET ServiceIds, sc \in [ServiceIds -> CredKinds],
              n \in BOOLEAN, re \in BOOLEAN} :
        /\ c.container = Nil => c.creds = "nil"
        /\ c.container # Nil => c.runsOn = <<LabelSelf>>
        /\ \A s \in ServiceIds \ c.services : c.svcCreds[s] = "nil"}

\* A job that calls a reusable workflow has neither steps nor containers of its own.
ReusableConfigs ==
    {c \in {[BaseConfig EXCEPT !.jobType = t, !.ifExpr = i, !.uses = u, !.reuse = re] :
              t \in {"ReusableWorkflowLocal", "ReusableWorkflowRemote"}, i \in IfExprs,
              u \in RemoteJobUses \cup LocalJobUses, re \in BOOLEAN} :
        c.uses \in (IF c.jobType = "ReusableWorkflowLocal" THEN LocalJobUses ELSE RemoteJobUses)}

\* Callers whose reference resolves: remote-action steps of running jobs and enabled
\* reusable-workflow jobs.
FetchConfigs ==
    {c \in {[BaseConfig EXCEPT !.jobType = t, !.uses = u, !.runsOn = <<LabelSelf>>] :
              t \in JobTypes, u \in StepUses \cup RemoteJobUses \cup LocalJobUses} :
        IF c.jobType = "Default" THEN newRemoteAction(c.uses) # NoAction
        ELSE /\ c.uses \in (IF c.jobType = "ReusableWorkflowLocal"
                            THEN LocalJobUses ELSE RemoteJobUses)
             /\ newRemoteReusableWorkflow(JobUses(c)) # NoWorkflow}

IdleConfig == [BaseConfig EXCEPT !.ifExpr = "false"]

\* Values of the `repository` and `ref` inputs of a checkout step; Nil when unset.
WithRepositories == {Nil, GithubRepository, "octocat/other"}
WithRefs == {Nil, GithubRef, "refs/heads/dev"}

\* Steps that use the checkout action or another one, with and without inputs.
CheckoutConfigs ==
    {[BaseConfig EXCEPT !.uses = u, !.runsOn = <<LabelSelf>>, !.withRepository = wr,
                        !.withRef = wf, !.noSkipCheckout = ns, !.bindWorkdir = bw] :
       u \in {UsesCheckout, UsesHello}, wr \in WithRepositories, wf \in WithRefs,
       ns \in BOOLEAN, bw \in BOOLEAN}

\* Image texts of a job's container spec; Nil when the job declares none.
ContainerImages == {Nil, "node:16", "${{ matrix.image }}", "${{ matrix.none }}"}

\* Default jobs without steps that differ in what decides the image.
PlatformConfigs ==
    {[BaseConfig EXCEPT !.container = k, !.picker = pk, !.runsOn = r] :
       k \in ContainerImages, pk \in Pickers, r \in RunsOnLists}

\* Default jobs without steps, run in a container, that differ in their credentials.
CredentialConfigs ==
    {c \in {[BaseConfig EXCEPT !.container = k, !.runsOn = <<LabelUbuntu>>, !.creds = cr,
                               !.services = sv, !.svcCreds = sc, !.needNet = n] :
              k \in {Nil, "node:16"}, cr \in AllCredKinds, sv \in SUBSET ServiceIds,
              sc \in [ServiceIds -> AllCredKinds], n \in BOOLEAN} :
        /\ c.container = Nil => c.creds = "nil"
        /\ \A s \in ServiceIds \ c.services : c.svcCreds[s] = "nil"}

\* Callers with references of every shape: steps, remote and local reusable-workflow
\* jobs (these with their condition).
RefConfigs ==
    {[BaseConfig EXCEPT !.uses = u, !.runsOn = <<LabelSelf>>] : u \in ActionRefs}
      \cup CheckoutConfigs
      \cup {[BaseConfig EXCEPT !.jobType = "ReusableWorkflowRemote", !.ifExpr = i, !.uses = u] :
              i \in IfExprs, u \in WorkflowRefs}
      \cup {[BaseConfig EXCEPT !.jobType = "ReusableWorkflowLocal", !.ifExpr = i, !.uses = u] :
              i \in IfExprs, u \in LocalRefs}

\* Cache directories some caller refers to.
UsedDirs(cf) == {TargetDir(cf[p]) : p \in {q \in Procs : Resolvable(cf[q])}}

(***************************************************************************)
(* The Run Context's environment                                           *)
(***************************************************************************)
\* The map without entries and the nil map of a Run Context that never called GetEnv.
NoMap == [k \in {} |-> <<>>]

NilEnv == [isNil |-> TRUE, m |-> NoMap]

KeyACT == <<"A", "C", "T">>

ValueTrue == <<"t", "r", "u", "e">>

\* mergeMaps: the maps are copied in order, so a later one overrides an earlier one.
RECURSIVE mergeMaps(_)
mergeMaps(maps) ==
    IF maps = <<>> THEN NoMap
    ELSE maps[Len(maps)] @@ mergeMaps(SubSeq(maps, 1, Len(maps) - 1))

\* GetEnv that merges the layers at every call.
GetEnvMergedEveryCall(env, ly) ==
    LET merged == IF ly.hasJob THEN mergeMaps(<<ly.workflow, ly.job, ly.config>>) ELSE NoMap
    IN  [isNil |-> FALSE, m |-> (KeyACT :> ValueTrue) @@ merged]

\* GetEnv that sets ACT only when it creates the map.
GetEnvMarkedOnce(env, ly) ==
    LET merged == IF ly.hasJob THEN mergeMaps(<<ly.workflow, ly.job, ly.config>>) ELSE NoMap
    IN  IF env.isNil THEN [isNil |-> FALSE, m |-> (KeyACT :> ValueTrue) @@ merged] ELSE env

\* GetEnv: rc.Env after the call, which is also the map returned. ly.hasJob stands for
\* rc.Run, its Workflow, rc.Config and the job all being set.
GetEnv(env, ly) ==
    LET merged == IF ly.hasJob THEN mergeMaps(<<ly.workflow, ly.job, ly.config>>) ELSE NoMap
        m == IF env.isNil THEN merged ELSE env.m
    IN  [isNil |-> FALSE, m |-> (KeyACT :> ValueTrue) @@ m]

UpperOf == [c \in {LowerOf[u] : u \in DOMAIN LowerOf} |->
              CHOOSE u \in DOMAIN LowerOf : LowerOf[u] = c]

\* strings.ToUpper
ToUpper(s) == [i \in 1..Len(s) |-> IF s[i] \in DOMAIN UpperOf THEN UpperOf[s[i]] ELSE s[i]]

\* JobContainer.GetRunnerContext(ctx) of the host environment: two texts and a value
\* that is not a string.
RunnerContext ==
    (<<"o", "s">> :> [isString |-> TRUE, v |-> <<"L", "i", "n", "u", "x">>])
      @@ (<<"t", "e", "m", "p">> :> [isString |-> TRUE, v |-> <<"/", "t">>])
      @@ (<<"d", "e", "b", "u", "g">> :> [isString |-> FALSE, v |-> <<>>])

\* rc.Env after the loop over the runner context: RUNNER_<KEY> is written for every text.
RunnerEnv(m) ==
    LET texts == {k \in DOMAIN RunnerContext : RunnerContext[k].isString}
        key(k) == <<"R", "U", "N", "N", "E", "R", "_">> \o ToUpper(k)
    IN  [n \in DOMAIN m \cup {key(k) : k \in texts} |->
           IF \E k \in texts : key(k) = n
           THEN RunnerContext[CHOOSE k \in texts : key(k) = n].v
           ELSE m[n]]

\* strings.Cut(env, "=")
Cut(env) ==
    LET i == IndexIn(env, {"="}, 1)
    IN  IF i > Len(env) THEN [k |-> env, v |-> <<>>, ok |-> FALSE]
        ELSE [k |-> SubSeq(env, 1, i - 1), v |-> SubSeq(env, i + 1, Len(env)), ok |-> TRUE]

\* The loop over os.Environ() that writes every entry, also over a variable that is set.
RECURSIVE AmbientEnvOverriding(_, _, _)
AmbientEnvOverriding(m, envs, i) ==
    IF i > Len(envs) THEN m
    ELSE LET c == Cut(envs[i])
         IN  IF c.ok
             THEN AmbientEnvOverriding((c.k :> c.v) @@ m, envs, i + 1)
             ELSE AmbientEnvOverriding(m, envs, i + 1)

\* The loop over os.Environ(): an entry is written only under a key rc.Env does not have.
RECURSIVE AmbientEnv(_, _, _)
AmbientEnv(m, envs, i) ==
    IF i > Len(envs) THEN m
    ELSE LET c == Cut(envs[i])
         IN  IF c.ok /\ c.k \notin DOMAIN m
             THEN AmbientEnv((c.k :> c.v) @@ m, envs, i + 1)
             ELSE AmbientEnv(m, envs, i + 1)

\* os.LookupEnv: the first entry of the key.
LookupEnv(envs, key) ==
    LET hits == {i \in 1..Len(envs) : Cut(envs[i]).ok /\ Cut(envs[i]).k = key}
    IN  IF hits = {} THEN [v |-> <<>>, ok |-> FALSE]
        ELSE [v |-> Cut(envs[CHOOSE i \in hits : \A j \in hits : i <= j]).v, ok |-> TRUE]

\* filepath.Abs("."), the directory the runner was started in.
WorkingDir == <<"/", "c", "w", "d">>

\* ActionCacheDir(): $XDG_CACHE_HOME, else <home>/.cache, else the working directory,
\* joined with "act". os.UserHomeDir() fails when $HOME is empty.
ActionCacheDir(envs) ==
    LET xdg == LookupEnv(envs, <<"X", "D", "G", "_", "C", "A", "C", "H", "E", "_", "H", "O",
          "M", "E">>)
        home == LookupEnv(envs, <<"H", "O", "M", "E">>)
        xdgCache == IF xdg.ok /\ xdg.v # <<>> THEN xdg.v
                    ELSE IF home.v # <<>> THEN home.v \o <<"/", ".", "c", "a", "c", "h",
                          "e">>
                    ELSE WorkingDir
    IN  xdgCache \o <<"/", "a", "c", "t">>

(***************************************************************************)
(* Container names, binds and mounts                                       *)
(***************************************************************************)
Letters == DOMAIN LowerOf \cup DOMAIN UpperOf

Digits == {"0", "1", "2", "3", "4", "5", "6", "7", "8", "9"}

\* strings.Trim(v, "-")
TrimDashes(v) ==
    LET keep == {i \in 1..Len(v) : v[i] # "-"}
    IN  IF keep = {} THEN <<>>
        ELSE SubSeq(v, CHOOSE i \in keep : \A j \in keep : i <= j,
                       CHOOSE i \in keep : \A j \in keep : j <= i)

\* strings.ReplaceAll(v, "--", "-") until no "--" is left: a run of "-" becomes one.
RECURSIVE CollapseDashes(_)
CollapseDashes(v) ==
    IF Len(v) < 2 THEN v
    ELSE IF v[1] = "-" /\ v[2] = "-" THEN CollapseDashes(Tail(v))
    ELSE <<v[1]>> \o CollapseDashes(Tail(v))

\* One part of a container name: [^a-zA-Z0-9-] replaced by "-", trimmed, collapsed.
SimpleNamePart(v) ==
    CollapseDashes(TrimDashes(
        [i \in 1..Len(v) |-> IF v[i] \in Letters \cup Digits \cup {"-"} THEN v[i] ELSE "-"]))

\* strings.Join(name, "_")
RECURSIVE JoinParts(_)
JoinParts(name) ==
    IF name = <<>> THEN <<>>
    ELSE IF Len(name) = 1 THEN name[1]
    ELSE name[1] \o <<"_">> \o JoinParts(Tail(name))

\* createSimpleContainerName: the empty parts are left out.
createSimpleContainerName(parts) ==
    JoinParts(SelectSeq([i \in 1..Len(parts) |-> SimpleNamePart(parts[i])],
                        LAMBDA v : v # <<>>))

\* rc.String(): a Run Context of a reusable workflow is prefixed with the caller's job id.
String(c) ==
    LET name == c.workflowName \o <<"/">> \o c.name
    IN  IF c.caller # <<>> THEN c.caller \o <<"/">> \o name ELSE name

\* jobContainerName()
jobContainerName(c) ==
    createSimpleContainerName(<<c.namePrefix, <<"W", "O", "R", "K", "F", "L", "O", "W",
          "-">> \o c.workflowName,
                                <<"J", "O", "B", "-">> \o c.name>>)

\* strings.Index, counted from 1; 0 when sub does not occur.
Index(s, sub) ==
    LET hits == {i \in 1..(Len(s) - Len(sub) + 1) : SubSeq(s, i, i + Len(sub) - 1) = sub}
    IN  IF hits = {} THEN 0 ELSE CHOOSE i \in hits : \A j \in hits : i <= j

\* strings.EqualFold, on texts of the ASCII range.
EqualFold(s, t) == ToLower(s) = ToLower(t)

DefaultSocket == <<"/", "v", "a", "r", "/", "r", "u", "n", "/", "d", "o", "c", "k", "e", "r",
      ".", "s", "o", "c", "k">>

getDockerDaemonSocketMountPath(daemonPath) ==
    LET protoIndex == Index(daemonPath, <<":", "/", "/">>)
        scheme == SubSeq(daemonPath, 1, protoIndex - 1)
    IN  IF protoIndex = 0 THEN daemonPath
        ELSE IF EqualFold(scheme, <<"n", "p", "i", "p", "e">>) THEN DefaultSocket
        ELSE IF EqualFold(scheme, <<"u", "n", "i", "x">>)
        THEN SubSeq(daemonPath, protoIndex + 3, Len(daemonPath))
        ELSE IF \A i \in 1..Len(scheme) : scheme[i] \in Letters THEN DefaultSocket
        ELSE daemonPath

\* ext.GetActPath() of the Linux container extensions.
ActPath == <<"/", "v", "a", "r", "/", "r", "u", "n", "/", "a", "c", "t">>

\* ext.ToContainerPath: a drive path of a Windows host is mapped below /mnt, any other
\* path is kept.
ToContainerPath(path) ==
    IF Len(path) >= 3 /\ path[1] \in Letters /\ path[2] = ":" /\ path[3] = "\\"
    THEN <<"/", "m", "n", "t", "/">> \o ToLower(<<path[1]>>) \o <<"/">>
           \o [i \in 1..(Len(path) - 3) |-> IF path[i + 3] = "\\" THEN "/" ELSE path[i + 3]]
    ELSE path

\* filepath.IsAbs on a Unix host.
IsAbs(v) == HasPrefix(v, <<"/">>)

\* The loop over the job container's volumes: v is bound when it has no ":" or is an
\* absolute path, otherwise the volume before the first ":" is mounted on the rest.
RECURSIVE Volumes(_, _, _)
Volumes(bm, vols, i) ==
    IF i > Len(vols) THEN bm
    ELSE LET v == vols[i]
             colon == Index(v, <<":">>)
         IN  IF colon = 0 \/ IsAbs(v)
             THEN Volumes([bm EXCEPT !.binds = Append(@, v)], vols, i + 1)
             ELSE Volumes([bm EXCEPT !.mounts = (SubSeq(v, 1, colon - 1)
                                                   :> SubSeq(v, colon + 1, Len(v))) @@ @],
                          vols, i + 1)

\* ":delegated" on darwin, ":z" with SELinux enabled (which wins).
BindModifiers(c) ==
    IF c.selinux THEN <<":", "z">> ELSE IF c.goos = "darwin" THEN <<":", "d", "e", "l", "e",
          "g", "a", "t", "e", "d">> ELSE <<>>

\* The workspace: bound with Config.BindWorkdir, else mounted as the volume named like
\* the job container.
Workspace(c, bm) ==
    IF c.bindWorkdir
    THEN [bm EXCEPT !.binds = Append(@, c.workdir \o <<":">> \o ToContainerPath(c.workdir)
                                          \o BindModifiers(c))]
    ELSE [bm EXCEPT !.mounts = (jobContainerName(c) :> ToContainerPath(c.workdir)) @@ @]

\* GetBindsAndMounts with the daemon socket read before the default is put in.
GetBindsAndMountsSocketReadFirst(c, socket) ==
    LET daemonSocket == IF socket = <<>> THEN DefaultSocket ELSE socket
        binds == IF socket # <<"-">>
                 THEN <<getDockerDaemonSocketMountPath(socket) \o <<":">> \o DefaultSocket>>
                 ELSE <<>>
        mounts == (<<"a", "c", "t", "-", "t", "o", "o", "l", "c", "a", "c", "h",
              "e">> :> <<"/", "t", "o", "o", "l", "c", "a", "c", "h", "e">>)
                    @@ ((jobContainerName(c) \o <<"-", "e", "n", "v">>) :> ActPath)
        bm == Workspace(c, Volumes([binds |-> binds, mounts |-> mounts], c.volumes, 1))
    IN  [socket |-> daemonSocket, binds |-> bm.binds, mounts |-> bm.mounts]

\* GetBindsAndMounts: the binds and mounts returned and Config.ContainerDaemonSocket as
\* the call leaves it (an empty setting is replaced by the default socket).
GetBindsAndMounts(c, socket) ==
    LET daemonSocket == IF socket = <<>> THEN DefaultSocket ELSE socket
        binds == IF daemonSocket # <<"-">>
                 THEN <<getDockerDaemonSocketMountPath(daemonSocket) \o <<":">>
                          \o DefaultSocket>>
                 ELSE <<>>
        mounts == (<<"a", "c", "t", "-", "t", "o", "o", "l", "c", "a", "c", "h",
              "e">> :> <<"/", "t", "o", "o", "l", "c", "a", "c", "h", "e">>)
                    @@ ((jobContainerName(c) \o <<"-", "e", "n", "v">>) :> ActPath)
        bm == Workspace(c, Volumes([binds |-> binds, mounts |-> mounts], c.volumes, 1))
    IN  [socket |-> daemonSocket, binds |-> bm.binds, mounts |-> bm.mounts]

(***************************************************************************)
(* Inputs of the accessor calls                                            *)
(***************************************************************************)
\* Process environments: entries with the same key, without "=", with an empty key and
\* with keys the Run Context sets itself.
Environs ==
    {<<>>,
     <<<<"A", "=", "a", "m", "b">>, <<"A", "=", "a", "g", "a", "i", "n">>, <<"N", "O", "E",
           "Q">>>>,
     <<<<"A", "C", "T", "=", "n", "o">>, <<"R", "U", "N", "N", "E", "R", "_", "O", "S", "=",
           "x">>, <<"=", "e">>>>,
     <<<<"C", "=", "a", "m", "b">>, <<"B", "=", "x", "=", "y">>>>}

\* Variables declared by the workflow, by the job and in the configuration.
LayerSets ==
    {[hasJob |-> TRUE, workflow |-> w, job |-> j, config |-> c] :
       w \in {NoMap, (<<"A">> :> <<"w">>) @@ (<<"B">> :> <<"w">>)},
       j \in {NoMap, (<<"A">> :> <<"j">>) @@ (<<"C">> :> <<"j">>)},
       c \in {NoMap, (<<"A">> :> <<"c">>) @@ (KeyACT :> <<"n", "o">>)}}

\* rc.Env of a Run Context as it is constructed: not set, or given by the constructor.
InitialEnvs == {NilEnv, [isNil |-> FALSE, m |-> (<<"A">> :> <<"g", "i", "v", "e", "n">>)]}

\* Settings of Config.ContainerDaemonSocket.
DaemonSockets ==
    {<<>>, <<"-">>, <<"/", "s">>, <<"u", "n", "i", "x", ":", "/", "/", "/", "s">>, <<"U",
          "N", "I", "X", ":", "/", "/", "x">>, <<"n", "p", "i", "p", "e", ":", "/", "/", "/",
          "/", ".", "/", "p", "i", "p", "e", "/", "d">>,
     <<"t", "c", "p", ":", "/", "/", "h">>, <<"t", "1", ":", "/", "/", "h">>}

\* Volumes of the job's container spec: a host path, two entries of one volume, an
\* anonymous volume.
VolumeLists == {<<>>, <<<<"/", "h", ":", "/", "c">>, <<"v", ":", "/", "d">>, <<"a", "n", "o",
      "n">>, <<"v", ":", "/", "e", ":", "r", "o">>>>}

\* Jobs run on the host that differ in what decides the binds and mounts; the workspace
\* of the last ones is a drive path.
BindConfigs ==
    {[BaseConfig EXCEPT !.runsOn = <<LabelSelf>>, !.volumes = vw[1], !.bindWorkdir = bw,
                        !.goos = g, !.selinux = se, !.workdir = vw[2]] :
       vw \in (VolumeLists \X {<<"/", "w">>}) \cup {<< <<>>, <<"C", ":", "\\", "w">> >>},
       bw \in BOOLEAN, g \in {"linux", "darwin"}, se \in BOOLEAN}

\* Process environments that decide the cache root differently.
CacheEnvirons ==
    {<<>>, <<<<"X", "D", "G", "_", "C", "A", "C", "H", "E", "_", "H", "O", "M", "E", "=",
          "/", "x">>>>, <<<<"H", "O", "M", "E", "=", "/", "h">>, <<"X", "D", "G", "_", "C",
          "A", "C", "H", "E", "_", "H", "O", "M", "E", "=">>>>}

\* An entry of Config.ReplaceGheActionWithGithubCom.
OctocatHello == <<"O", "c", "t", "o", "c", "a", "t", "/", "H", "e", "l", "l", "o">>

\* Host settings: Config.ReplaceGheActionWithGithubCom with its token and
\* Config.DefaultActionsURLs.
HostSettings ==
    {[replaceGhe |-> <<>>, replaceGheToken |-> "", defaultURLs |-> <<GithubCom>>],
     [replaceGhe |-> <<OctocatHello>>, replaceGheToken |-> "gh-token",
      defaultURLs |-> <<<<"h", "t", "t", "p", "s", ":", "/", "/", "g", "i", "t", "e", "a",
            ".", "c", "o", "m">>, GithubCom>>],
     [replaceGhe |-> <<<<"o", "t", "h", "e", "r", "/", "a", "c", "t", "i", "o", "n">>>>,
           replaceGheToken |-> "gh-token",
      defaultURLs |-> <<<<"h", "t", "t", "p", ":", "/", "/", "g", "i", "t", "e", "a", ".",
            "l", "o", "c", "a", "l">>, <<"g", "i", "t", "e", "a", ".", "c", "o", "m">>>>]}

\* Tokens of the instance that triggered the run.
Tokens == {"", "instance-token"}

\* A step whose action is composite and defines both hooks.
HookedStep ==
    [BaseConfig EXCEPT !.runsOn = <<LabelSelf>>, !.using = "composite", !.hasPre = TRUE,
                       !.hasPost = TRUE]

\* Steps that differ in the reference, the hosts and the token.
HostConfigs ==
    {[HookedStep EXCEPT !.uses = u, !.replaceGhe = h.replaceGhe,
                        !.replaceGheToken = h.replaceGheToken,
                        !.defaultURLs = h.defaultURLs, !.token = t] :
       u \in {UsesHello, SeedActionURL, UsesCheckout, UsesNotARef}, h \in HostSettings,
       t \in Tokens}

\* Steps that differ in the hooks of the action, its kind and the conditions.
HookConfigs ==
    {c \in {[BaseConfig EXCEPT !.runsOn = <<LabelSelf>>, !.uses = u, !.stepIf = i,
                               !.hasPre = hp, !.preIf = pi, !.hasPost = ho, !.using = k] :
              u \in {UsesHello, UsesCheckout}, i \in IfExprs, hp \in BOOLEAN,
              pi \in {"true", "false"}, ho \in BOOLEAN, k \in {"node", "composite"}} :
        ~c.hasPre => c.preIf = "true"}

StageConfigs == HostConfigs \cup HookConfigs

\* Two steps of one reference or of two, each with its own hosts and token.
TwinConfigs ==
    {[HookedStep EXCEPT !.hasPost = FALSE, !.uses = u, !.replaceGhe = h.replaceGhe,
                        !.replaceGheToken = h.replaceGheToken,
                        !.defaultURLs = h.defaultURLs, !.token = "instance-token"] :
       u \in {UsesHello, SeedActionURL}, h \in HostSettings}

\* Run Contexts by container name prefix, workflow name, job name and caller job.
NameConfigs ==
    {[BaseConfig EXCEPT !.runsOn = <<LabelSelf>>, !.namePrefix = px, !.workflowName = w,
                        !.name = n, !.caller = cl] :
       px \in {<<>>, <<"T", "A", "S", "K", "-", "7">>}, w \in {<<"c", "i">>, <<"c", "/",
             "i">>}, n \in {<<"b", "u", "i", "l", "d">>, <<"b", "u", "i", "l", "d", "_",
             "2">>},
       cl \in {<<>>, <<"d", "e", "p", "l", "o", "y", "-", "a">>, <<"d", "e", "p", "l", "o",
             "y", "-", "b">>}}

\* Step ids of a job.
StepIds == {"s1", "s2", "s3"}

\* model.StepResult: the outcome of a step and its conclusion, which differ for a failed
\* step that is marked continue-on-error.
StepResultValues ==
    {[Outcome |-> "success", Conclusion |-> "success"],
     [Outcome |-> "failure", Conclusion |-> "failure"],
     [Outcome |-> "failure", Conclusion |-> "success"],
     [Outcome |-> "skipped", Conclusion |-> "skipped"]}

\* rc.StepResults after any of the steps have run.
StepResultMaps == UNION {[ids -> StepResultValues] : ids \in SUBSET StepIds}

\* Jobs run in a container that declare services, with service credentials that
\* resolve or are incomplete.
RestartConfigs ==
    {c \in CredentialConfigs :
        /\ c.container = "node:16" /\ c.creds = "nil" /\ ~c.needNet
        /\ c.services # {}
        /\ \A s \in c.services : c.svcCreds[s] \in {"nil", "userOnly"}}

(***************************************************************************)
(* Initial states                                                          *)
(***************************************************************************)
NoContainer == [kind |-> Nil, image |-> "", net |-> ""]

IdleJobOps ==
    [pull |-> "idle", netCreate |-> "idle", create |-> "idle", start |-> "idle",
     copy |-> "idle", remove |-> "idle", volRemove |-> "idle", volEnvRemove |-> "idle",
     hostRemove |-> "idle"]

IdleSvcOps ==
    [pull |-> "idle", pull2 |-> "idle", create |-> "idle", start |-> "idle", remove |-> "idle"]

\* No error returned (yet).
NoError == [kind |-> "none"]

InitHist ==
    [fetches |-> [d \in Dirs |-> 0], onExisting |-> {}, dup |-> {}, overlap |-> FALSE,
     stepsRun |-> 0, childRuns |-> 0, err |-> [p \in Procs |-> NoError],
     fetchErr |-> [p \in Procs |-> NoError], reads |-> [p \in Procs |-> 0],
     copyDir |-> 0, workflow |-> [p \in Procs |-> NoWorkflow], requests |-> {},
     dirs |-> [p \in Procs |-> [prepare |-> {}, main |-> {}]],
     trace |-> [p \in Procs |-> <<>>], restarts |-> 0]

InitCommon ==
    /\ result = [p \in Procs |-> "none"]
    /\ executorLock = 0
    /\ dirExists \in [Dirs \cup UsedDirs(cfg) -> BOOLEAN]
    /\ \A d \in Dirs \ UsedDirs(cfg) : ~dirExists[d]
    /\ dirInit = dirExists
    /\ remoteAction = [p \in Procs |-> FALSE]
    /\ action = [p \in Procs |-> FALSE]
    /\ stage = [p \in Procs |-> "pre"]
    /\ hist = [InitHist EXCEPT !.fetches = [d \in DOMAIN dirExists |-> 0]]
    /\ JobContainer = NoContainer
    /\ ServiceContainers = <<>>
    /\ cleanUpJobContainer = Nil
    /\ jobOp = IdleJobOps
    /\ svcOp = <<>>
    /\ network = Nil
    /\ scratchDir = "absent"
    /\ files = {}
    /\ stopResult = "none"

\* The layers of a job that declares no variable.
NoLayers == [hasJob |-> TRUE, workflow |-> NoMap, job |-> NoMap, config |-> NoMap]

NoRunContext ==
    [isNil |-> TRUE, Env |-> NoMap, ExtraPath |-> <<>>, id |-> 0, built |-> 0, dir |-> <<>>]

\* Run Contexts whose expression evaluator has been built, which calls GetEnv(): no
\* variable declared, an empty process environment, the default daemon socket setting.
InitContext ==
    /\ environ = <<>>
    /\ layers = [p \in Procs |-> NoLayers]
    /\ Env = [p \in Procs |-> GetEnv(NilEnv, NoLayers)]
    /\ ExtraPath = [p \in Procs |-> <<>>]
    /\ compositeRunContext = [p \in Procs |-> NoRunContext]
    /\ ContainerDaemonSocket = [p \in Procs |-> <<>>]
    /\ StepResults = [p \in Procs |-> NoMap]
    /\ calls = [p \in Procs |-> <<>>]

\* One Run Context, about to run the executor returned by Executor().
Init ==
    /\ \E c \in DefaultConfigs \cup ReusableConfigs :
           cfg = [p \in Procs |-> IF p = 1 THEN c ELSE IdleConfig]
    /\ pc = [p \in Procs |-> IF p = 1 THEN "Executor" ELSE "off"]
    /\ InitCommon
    /\ InitContext

\* Several callers, each about to resolve its reference.
InitFetch ==
    /\ cfg \in [Procs -> FetchConfigs]
    /\ pc = [p \in Procs |-> IF cfg[p].jobType = "Default" THEN "prepare" ELSE "rwLock"]
    /\ InitCommon
    /\ InitContext

\* Reusable-workflow jobs, local and remote, of the plan or of the workflow another of
\* them calls (nested to any depth); the cache directories may be there already.
InitLock ==
    /\ cfg \in [Procs -> {[c EXCEPT !.parent = n] :
                           c \in {f \in FetchConfigs : f.jobType # "Default"},
                           n \in {0} \cup Procs}]
    /\ \A p \in Procs : cfg[p].parent < p
    /\ pc = [p \in Procs |-> IF cfg[p].parent = 0 THEN "rwLock" ELSE "child"]
    /\ InitCommon
    /\ InitContext

\* One caller with a reference of any shape: a step about to be prepared or a
\* reusable-workflow job about to get its executor.
InitRefs ==
    /\ \E c \in RefConfigs : cfg = [p \in Procs |-> IF p = 1 THEN c ELSE IdleConfig]
    /\ pc = [p \in Procs |-> IF p # 1 THEN "off"
                              ELSE IF cfg[p].jobType = "Default" THEN "prepare"
                              ELSE "Executor"]
    /\ InitCommon
    /\ InitContext

\* One Run Context of a Default job, about to run the executor returned by Executor().
InitStart ==
    /\ \E c \in PlatformConfigs \cup CredentialConfigs :
           cfg = [p \in Procs |-> IF p = 1 THEN c ELSE IdleConfig]
    /\ pc = [p \in Procs |-> IF p = 1 THEN "Executor" ELSE "off"]
    /\ InitCommon
    /\ InitContext

\* One Run Context as constructed, about to start its environment on the host: either
\* its variables or its binds and mounts are at their defaults.
InitEnv ==
    /\ \E c \in BindConfigs : cfg = [p \in Procs |-> IF p = 1 THEN c ELSE IdleConfig]
    /\ pc = [p \in Procs |-> IF p = 1 THEN "startContainer" ELSE "off"]
    /\ InitCommon
    /\ environ \in Environs
    /\ layers \in [Procs -> LayerSets]
    /\ Env \in [Procs -> InitialEnvs]
    /\ ContainerDaemonSocket \in [Procs -> DaemonSockets]
    /\ \A p \in Procs \ {1} :
          layers[p] = NoLayers /\ Env[p] = NilEnv /\ ContainerDaemonSocket[p] = <<>>
    /\ \/ cfg[1] = [BaseConfig EXCEPT !.runsOn = <<LabelSelf>>]
             /\ ContainerDaemonSocket[1] = <<>>
       \/ environ = <<>> /\ layers[1] = NoLayers /\ Env[1] = NilEnv
    /\ ExtraPath = [p \in Procs |-> <<>>]
    /\ compositeRunContext = [p \in Procs |-> NoRunContext]
    /\ StepResults = [p \in Procs |-> NoMap]
    /\ calls = [p \in Procs |-> <<>>]

\* One step about to run its pre stage, in a job whose environment is up.
InitStages ==
    /\ \E c \in StageConfigs : cfg = [p \in Procs |-> IF p = 1 THEN c ELSE IdleConfig]
    /\ pc = [p \in Procs |-> IF p = 1 THEN "prepare" ELSE "off"]
    /\ InitCommon
    /\ environ = <<>>
    /\ layers = [p \in Procs |-> NoLayers]
    /\ Env = [p \in Procs |-> GetEnv(NilEnv, NoLayers)]
    /\ ExtraPath = [p \in Procs |-> <<>>]
    /\ compositeRunContext = [p \in Procs |-> NoRunContext]
    /\ ContainerDaemonSocket = [p \in Procs |-> <<>>]
    /\ StepResults = [p \in Procs |-> NoMap]
    /\ calls = [p \in Procs |-> <<>>]

\* Two steps of two jobs of one runner, each about to run its pre stage.
InitTwins ==
    /\ \E c1 \in TwinConfigs, c2 \in {c \in TwinConfigs : c.replaceGhe = <<OctocatHello>>} :
          cfg = [p \in Procs |-> IF p = 1 THEN c1 ELSE IF p = 2 THEN c2 ELSE IdleConfig]
    /\ pc = [p \in Procs |-> IF p <= 2 THEN "prepare" ELSE "off"]
    /\ InitCommon
    /\ environ \in CacheEnvirons
    /\ layers = [p \in Procs |-> NoLayers]
    /\ Env = [p \in Procs |-> GetEnv(NilEnv, NoLayers)]
    /\ ExtraPath = [p \in Procs |-> <<>>]
    /\ compositeRunContext = [p \in Procs |-> NoRunContext]
    /\ ContainerDaemonSocket = [p \in Procs |-> <<>>]
    /\ StepResults = [p \in Procs |-> NoMap]
    /\ calls = [p \in Procs |-> <<>>]

\* Two Run Contexts of one runner, each of any workflow, job and caller.
InitNames ==
    /\ \E c1, c2 \in NameConfigs :
          cfg = [p \in Procs |-> IF p = 1 THEN c1 ELSE IF p = 2 THEN c2 ELSE IdleConfig]
    /\ pc = [p \in Procs |-> IF p <= 2 THEN "startContainer" ELSE "off"]
    /\ InitCommon
    /\ InitContext

\* One Run Context whose steps, some or none of them, have left their results.
InitStatus ==
    /\ cfg = [p \in Procs |-> IF p = 1 THEN [BaseConfig EXCEPT !.runsOn = <<LabelSelf>>]
                              ELSE IdleConfig]
    /\ pc = [p \in Procs |-> IF p = 1 THEN "stepsDone" ELSE "off"]
    /\ InitCommon
    /\ environ = <<>>
    /\ StepResults \in [Procs -> StepResultMaps]
    /\ \A p \in Procs \ {1} : StepResults[p] = NoMap
    /\ layers = [p \in Procs |-> NoLayers]
    /\ Env = [p \in Procs |-> GetEnv(NilEnv, NoLayers)]
    /\ ExtraPath = [p \in Procs |-> <<>>]
    /\ compositeRunContext = [p \in Procs |-> NoRunContext]
    /\ ContainerDaemonSocket = [p \in Procs |-> <<>>]
    /\ calls = [p \in Procs |-> <<>>]

\* One Run Context about to run the executor returned by startContainer().
InitRestart ==
    /\ \E c \in RestartConfigs : cfg = [p \in Procs |-> IF p = 1 THEN c ELSE IdleConfig]
    /\ pc = [p \in Procs |-> IF p = 1 THEN "startContainer" ELSE "off"]
    /\ InitCommon
    /\ InitContext

(***************************************************************************)
(* Executor(): the job's condition, then dispatch by job kind              *)
(***************************************************************************)
Finish(p, r) ==
    /\ pc' = [pc EXCEPT ![p] = "done"]
    /\ result' = [result EXCEPT ![p] = r]

Goto(p, label) == pc' = [pc EXCEPT ![p] = label]

\* The error value p's executor returns is recorded.
Returns(p, e) == hist' = [hist EXCEPT !.err[p] = e]

\* What an accessor of p's Run Context returned is recorded.
Called(p, entry) == calls' = [calls EXCEPT ![p] = Append(@, entry)]

\* The recorded calls of an accessor on p's Run Context.
CallsOf(p, op) == {i \in 1..Len(calls[p]) : calls[p][i].op = op}

\* fmt.Errorf("Error in if-expression: \"if: %s\" (%s)", job.If.Value, err)
IfExpressionError(c) == [kind |-> "ifExpression", expr |-> c.ifExpr, cause |-> "EvalBool"]

\* "expected format {owner}/{repo}/.{git_platform}/workflows/{filename}@{ref}. Actual '%s' ..."
WorkflowFormatError(uses) == [kind |-> "workflowFormat", actual |-> uses]

Executor(p) ==
    /\ pc[p] = "Executor"
    /\ LET c == cfg[p]
           enabled == isEnabled(c)
       IN  CASE enabled = "error" -> Finish(p, "error") /\ Returns(p, IfExpressionError(c))
             [] enabled = "false" -> Finish(p, "ok") /\ UNCHANGED hist
             [] OTHER ->
                  IF c.jobType = "Default"
                  THEN Goto(p, "startContainer") /\ UNCHANGED <<result, hist>>
                  ELSE IF newRemoteReusableWorkflow(JobUses(c)) = NoWorkflow
                       THEN Finish(p, "error") /\ Returns(p, WorkflowFormatError(JobUses(c)))
                       ELSE /\ Goto(p, "rwLock")
                            /\ hist' = [hist EXCEPT
                                          !.workflow[p] = newRemoteReusableWorkflow(JobUses(c))]
                            /\ UNCHANGED result
    /\ UNCHANGED <<cfg, ctxVars, remoteAction, action, stage, executorLock, dirExists,
                   dirInit,
                   containerVars>>

(***************************************************************************)
(* The source fetcher (git clone executor), a stub that records its calls  *)
(***************************************************************************)
InClone(p) == pc[p] \in {"rwClone", "sarClone"}

\* The record of the fetcher's calls with a call of p for directory d added.
Fetching(p, d) ==
    [hist EXCEPT
       !.fetches[d] = @ + 1,
       !.onExisting = IF dirExists[d] THEN @ \cup {d} ELSE @,
       !.dup = IF ~dirInit[d]
                  /\ (dirExists[d]
                      \/ \E q \in Procs \ {p} : InClone(q) /\ TargetDir(cfg[q]) = d)
               THEN @ \cup {d} ELSE @,
       !.overlap = @ \/ \E q \in Procs \ {p} : InClone(q)]

\* The fetcher is invoked by caller p for directory d.
CloneBegin(p, d) == hist' = Fetching(p, d)

\* Full commit SHA the fetcher reports for an abbreviated one.
FullCommit == "abc123f09e8d7c6b5a4f3e2d1c0b9a8f7e6d5c4b"

\* The error value behind a result of the fetcher.
GitError(r) ==
    CASE r = "ok" -> NoError
      [] r = "shortRef" -> [kind |-> "git.ErrShortRef", commit |-> FullCommit]
      [] r = "forceNeeded" -> [kind |-> "gogit.ErrForceNeeded"]
      [] OTHER -> [kind |-> "git", msg |-> "authentication required"]

\* The fetcher returns r; a successful fetch leaves the directory in place, a failed
\* one may or may not.
CloneEnd(d, r, created) ==
    /\ r \in {"ok", "forceNeeded"} => created
    /\ dirExists' = [dirExists EXCEPT ![d] = @ \/ created]

(***************************************************************************)
(* Reusable workflows: newMutexExecutor(cloneIfRequired) then the child run *)
(***************************************************************************)
Lock(p) ==
    /\ pc[p] = "rwLock"
    /\ executorLock = 0
    /\ executorLock' = p
    /\ Goto(p, "rwStat")
    /\ UNCHANGED <<cfg, ctxVars, result, remoteAction, action, stage, dirExists, dirInit,
                   hist,
                   containerVars>>

\* os.Stat(targetDirectory): clone only when the directory does not exist.
CloneIfRequired(p) ==
    /\ pc[p] = "rwStat"
    /\ LET d == TargetDir(cfg[p])
       IN  IF ~dirExists[d]
           THEN Goto(p, "rwClone") /\ CloneBegin(p, d)
           ELSE Goto(p, "rwUnlock") /\ UNCHANGED hist
    /\ UNCHANGED <<cfg, ctxVars, result, remoteAction, action, stage, executorLock,
                   dirExists,
                   dirInit, containerVars>>

\* A guarded executor that unlocks only when the executor returned nil.
UnlockOnSuccessOnly(p, r) == IF r = "ok" THEN 0 ELSE p

\* A lock that is kept through the run of the fetched workflow.
UnlockAfterRun(p, r) == IF r = "ok" THEN p ELSE 0

\* defer executorLock.Unlock(): the holder of the lock after the guarded executor of p
\* returned r, whatever r is.
DeferredUnlock(p, r) == 0

\* The clone returns; the deferred Unlock runs and the guarded executor's error, if
\* any, ends the pipeline.
CloneDoneUnlock(p) ==
    /\ pc[p] = "rwClone"
    /\ \E r \in CloneResults, created \in BOOLEAN :
          /\ CloneEnd(TargetDir(cfg[p]), r, created)
          /\ IF r = "ok" THEN Goto(p, "rwRun") /\ UNCHANGED result
             ELSE Finish(p, "error")
          /\ executorLock' = DeferredUnlock(p, r)
    /\ UNCHANGED <<cfg, ctxVars, remoteAction, action, stage, dirInit, hist, containerVars>>

\* No clone was needed: the deferred Unlock runs.
Unlock(p) ==
    /\ pc[p] = "rwUnlock"
    /\ executorLock' = 0
    /\ Goto(p, "rwRun")
    /\ UNCHANGED <<cfg, ctxVars, result, remoteAction, action, stage, dirExists, dirInit,
                   hist,
                   containerVars>>

\* A job of the workflow that caller cfg[q].parent runs is itself a reusable-workflow
\* job: its executor starts while the caller's plan executor runs.
StartChild(q) ==
    /\ pc[q] = "child"
    /\ cfg[q].parent \in Procs
    /\ pc[cfg[q].parent] = "rwRun"
    /\ Goto(q, "rwLock")
    /\ UNCHANGED <<cfg, ctxVars, result, remoteAction, action, stage, fetchVars,
                   containerVars>>

\* newReusableWorkflowExecutor: plan the workflow_call event and run the child plan,
\* which returns when its jobs have.
RunReusableWorkflow(p) ==
    /\ pc[p] = "rwRun"
    /\ \A q \in Procs : cfg[q].parent = p => pc[q] = "done"
    /\ \E ok \in BOOLEAN : Finish(p, IF ok THEN "ok" ELSE "error")
    /\ hist' = [hist EXCEPT !.childRuns = @ + 1]
    /\ UNCHANGED <<cfg, ctxVars, remoteAction, action, stage, executorLock, dirExists,
                   dirInit,
                   containerVars>>

(***************************************************************************)
(* Remote-action step: prepareActionExecutor, then the stage body          *)
(***************************************************************************)
\* The stage returns an error: the step pipeline of the job ends.
StepFail(p) ==
    /\ pc' = [pc EXCEPT ![p] = "stepsDone"]
    /\ result' = [result EXCEPT ![p] = "error"]

\* A stage pipeline that goes on to the stage's executor after prepareActionExecutor
\* returned an error.
PrepareFailGoesOn(p) ==
    /\ pc' = [pc EXCEPT ![p] = "stageBody"]
    /\ result' = [result EXCEPT ![p] = "error"]

\* prepareActionExecutor returns an error: the pipeline of pre() or main() ends without
\* starting the stage's executor, and the step has failed.
PrepareFail(p) == StepFail(p)

\* "Expected format {org}/{repo}[/path]@ref. Actual '%s' Input string was not in a
\* correct format"
ActionFormatError(uses) == [kind |-> "actionFormat", actual |-> uses]

\* "failed to get available clone url of [%s] action, error: %w"
CloneURLError(uses) == [kind |-> "cloneURL", uses |-> uses]

\* "Unable to resolve action `%s`, the provided ref `%s` is the shortened version of a
\* commit SHA, which is not supported. Please use the full commit SHA `%s` instead"
ShortRefError(uses, ref, commit) ==
    [kind |-> "shortRef", uses |-> uses, ref |-> ref, commit |-> commit]

IsCheckout(ra) == ra.Org = <<"a", "c", "t", "i", "o", "n", "s">>
                  /\ ra.Repo = <<"c", "h", "e", "c", "k", "o", "u", "t">>

\* isLocalCheckout with an unset repository or ref input compared like a set one.
isLocalCheckoutUnsetCompared(c) ==
    IF c.uses = NoUses THEN FALSE
    ELSE IF newRemoteAction(c.uses) = NoAction THEN FALSE
    ELSE IF ~IsCheckout(newRemoteAction(c.uses)) THEN FALSE
    ELSE IF c.withRepository # GithubRepository THEN FALSE
    ELSE IF c.withRef # GithubRef THEN FALSE
    ELSE TRUE

isLocalCheckout(c) ==
    IF c.uses = NoUses THEN FALSE
    ELSE IF newRemoteAction(c.uses) = NoAction THEN FALSE
    ELSE IF ~IsCheckout(newRemoteAction(c.uses)) THEN FALSE
    ELSE IF c.withRepository # Nil /\ c.withRepository # GithubRepository THEN FALSE
    ELSE IF c.withRef # Nil /\ c.withRef # GithubRef THEN FALSE
    ELSE TRUE

\* The test shared by prepareActionExecutor and main: a local checkout is skipped.
SkipCheckout(c) ==
    /\ IsCheckout(newRemoteAction(c.uses))
    /\ isLocalCheckout(c)
    /\ ~c.noSkipCheckout

\* The loop over Config.ReplaceGheActionWithGithubCom: the remote action after it. An
\* action named in the list (letter case aside) is fetched from github.com.
ReplaceGheAction(c, ra) ==
    IF \E i \in 1..Len(c.replaceGhe) : EqualFold(ra.Org \o <<"/">> \o ra.Repo,
          c.replaceGhe[i])
    THEN [ra EXCEPT !.URL = GithubCom]
    ELSE ra

\* github.Token after the same loop: the trigger context's token, replaced for an action
\* named in the list.
GithubToken(c, ra) ==
    IF \E i \in 1..Len(c.replaceGhe) : EqualFold(ra.Org \o <<"/">> \o ra.Repo,
          c.replaceGhe[i])
    THEN c.replaceGheToken
    ELSE c.token

\* remoteAction.CloneURL(defaultURL)
CloneURL(ra, defaultURL) ==
    LET u == IF ra.URL = <<>> THEN defaultURL ELSE ra.URL
        v == IF ~HasPrefix(u, Schemas[2]) /\ ~HasPrefix(u, Schemas[1])
             THEN Schemas[1] \o u ELSE u
    IN  v \o <<"/">> \o ra.Org \o <<"/">> \o ra.Repo

\* Outcomes of http.Get: a status code, or "error" when the request fails.
HTTPResults == {"200", "404", "500", "error"}

\* GetAvailableCloneURL: the URLs are probed in order; resp[i] is what the probe of the
\* i-th one gives. A 404 moves on, a 200 ends the search, anything else is an error.
GetAvailableCloneURL(ra, actionURLs, resp) ==
    LET stops == {i \in 1..Len(actionURLs) : resp[i] # "404"}
        i == IF stops = {} THEN 0 ELSE CHOOSE k \in stops : \A j \in stops : k <= j
    IN  IF i # 0 /\ resp[i] = "200"
        THEN [cloneURL |-> CloneURL(ra, actionURLs[i]), ok |-> TRUE]
        ELSE [cloneURL |-> <<>>, ok |-> FALSE]

\* A cache directory that is keyed by the reference and by whether the action's host was
\* replaced.
prepareActionDirByHost(c, envs) ==
    ActionCacheDir(envs) \o <<"/">>
       \o safeFilename(IF ReplaceGheAction(c, newRemoteAction(c.uses)).URL = GithubCom
                       THEN GithubCom \o <<"/">> \o c.uses ELSE c.uses)

\* actionDir of prepareActionExecutor, the directory the action is fetched into.
prepareActionDir(c, envs) == ActionCacheDir(envs) \o <<"/">> \o safeFilename(c.uses)

\* actionDir of main, the directory the action is run from.
mainActionDir(c, envs) == ActionCacheDir(envs) \o <<"/">> \o safeFilename(c.uses)

\* actionDir of getCompositeRunContext, the directory the child context is built for.
compositeActionDir(c, envs) == ActionCacheDir(envs) \o <<"/">> \o safeFilename(c.uses)

\* The clone request with the trigger context's token passed on.
GitCloneExecutorInputWithToken(c, ra, cloneURL, envs) ==
    [URL |-> cloneURL, Ref |-> ra.Ref, Dir |-> prepareActionDir(c, envs),
     Token |-> GithubToken(c, ra)]

\* git.NewGitCloneExecutorInput of prepareActionExecutor.
GitCloneExecutorInput(c, ra, cloneURL, envs) ==
    [URL |-> cloneURL, Ref |-> ra.Ref, Dir |-> prepareActionDir(c, envs), Token |-> ""]

\* What a stage of p's step does is appended to the step's trace.
Traced(h, p, ev) == [h EXCEPT !.trace[p] = Append(@, [stage |-> stage[p], ev |-> ev])]

\* prepareActionExecutor that never finds the action already resolved.
AlreadyResolvedNever(ra, act) == FALSE

\* sar.remoteAction != nil && sar.action != nil: "we are already good to run".
AlreadyResolved(ra, act) == ra /\ act

\* Parse the reference, pick the clone URL and invoke the fetcher; nothing to do when
\* the action is already resolved or the step is a local checkout.
PrepareActionExecutor(p) ==
    /\ pc[p] = "prepare"
    /\ IF AlreadyResolved(remoteAction[p], action[p])
       THEN /\ Goto(p, "stageBody")
            /\ hist' = Traced(hist, p, "resolved")
            /\ UNCHANGED <<result, remoteAction>>
       ELSE LET c == cfg[p]
                ra == newRemoteAction(c.uses)
            IN  /\ remoteAction' = [remoteAction EXCEPT ![p] = (ra # NoAction)]
                /\ IF ra = NoAction
                   THEN /\ PrepareFail(p)
                        /\ hist' = Traced([hist EXCEPT !.err[p] = ActionFormatError(c.uses)],
                                          p, "failed")
                   ELSE IF SkipCheckout(c)
                   THEN /\ Goto(p, "stageBody")
                        /\ hist' = Traced(hist, p, "resolved")
                        /\ UNCHANGED result
                   ELSE \E resp \in [1..Len(c.defaultURLs) -> HTTPResults] :
                          LET found == GetAvailableCloneURL(ReplaceGheAction(c, ra),
                                                            c.defaultURLs, resp)
                              input == GitCloneExecutorInput(c, ra, found.cloneURL, environ)
                          IN  IF found.ok
                              THEN /\ Goto(p, "sarClone")
                                   /\ hist' = [Fetching(p, TargetDir(c)) EXCEPT
                                                 !.requests = @ \cup {[proc |-> p,
                                                                       input |-> input]},
                                                 !.dirs[p].prepare = @ \cup {input.Dir}]
                                   /\ UNCHANGED result
                              ELSE /\ PrepareFail(p)
                                   /\ hist' = Traced([hist EXCEPT
                                                        !.err[p] = CloneURLError(c.uses)],
                                                     p, "failed")
    /\ UNCHANGED <<cfg, ctxVars, action, stage, executorLock, dirExists, dirInit,
                   containerVars>>

\* The outcome of gitClone(ctx) with ErrForceNeeded treated as fatal like any other
\* error.
ActionCloneErrorForceFatal(p, r) ==
    IF r = "shortRef"
    THEN ShortRefError(cfg[p].uses, newRemoteAction(cfg[p].uses).Ref, GitError(r).commit)
    ELSE GitError(r)

\* The error prepareActionExecutor returns for the fetcher's result r; NoError when it
\* goes on to read the manifest.
ActionCloneError(p, r) ==
    IF r = "shortRef"
    THEN ShortRefError(cfg[p].uses, newRemoteAction(cfg[p].uses).Ref, GitError(r).commit)
    ELSE IF r = "forceNeeded" THEN NoError
    ELSE GitError(r)

\* gitClone(ctx) returns: ErrShortRef and any other error end the stage, ErrForceNeeded
\* is only reported.
ActionCloneDone(p) ==
    /\ pc[p] = "sarClone"
    /\ \E r \in CloneResults, created \in BOOLEAN :
          /\ CloneEnd(TargetDir(cfg[p]), r, created)
          /\ IF ActionCloneError(p, r) = NoError
             THEN /\ Goto(p, "readAction")
                  /\ hist' = [hist EXCEPT !.fetchErr[p] = GitError(r)]
                  /\ UNCHANGED result
             ELSE /\ PrepareFail(p)
                  /\ hist' = Traced([hist EXCEPT !.fetchErr[p] = GitError(r),
                                                 !.err[p] = ActionCloneError(p, r)],
                                    p, "failed")
    /\ UNCHANGED <<cfg, ctxVars, remoteAction, action, stage, executorLock, dirInit,
                   containerVars>>

\* sar.readAction: the manifest is read and sar.action set.
ReadAction(p) ==
    /\ pc[p] = "readAction"
    /\ \E ok \in BOOLEAN :
          /\ action' = [action EXCEPT ![p] = ok]
          /\ IF ok
             THEN /\ Goto(p, "stageBody")
                  /\ hist' = Traced([hist EXCEPT !.reads[p] = @ + 1], p, "resolved")
                  /\ UNCHANGED result
             ELSE /\ PrepareFail(p)
                  /\ hist' = Traced([hist EXCEPT !.reads[p] = @ + 1,
                                                 !.err[p] = [kind |-> "readAction"]],
                                    p, "failed")
    /\ UNCHANGED <<cfg, ctxVars, remoteAction, stage, executorLock, dirExists, dirInit,
                   containerVars>>

\* getIfExpression: the condition of a stage. The pre stage of a skipped local checkout
\* has the condition "false".
getIfExpression(c, st) ==
    CASE st = "pre" -> IF SkipCheckout(c) THEN "false" ELSE c.preIf
      [] st = "main" -> c.stepIf
      [] OTHER -> c.postIf

\* hasPreStep / hasPostStep with shouldRunPreStep / shouldRunPostStep: the pre and the
\* post stage apply when the manifest was read and defines the hook.
StageApplies(c, st, hasAction) ==
    CASE st = "pre" -> hasAction /\ c.hasPre
      [] st = "main" -> TRUE
      [] OTHER -> hasAction /\ c.hasPost

\* evaluateCompositeInputAndEnv: the child's environment, made of the parent's variables
\* and the step's inputs.
evaluateCompositeInputAndEnv(parentEnv) == (<<"I", "N", "P", "U", "T", "_",
      "X">> :> <<"1">>) @@ parentEnv.m

\* newCompositeRunContext: a new child with its environment computed from the parent
\* and the parent's extra path.
newCompositeRunContext(child, parentEnv, parentExtraPath, dir) ==
    [isNil |-> FALSE, Env |-> evaluateCompositeInputAndEnv(parentEnv),
     ExtraPath |-> parentExtraPath, id |-> child.id + 1, built |-> child.built, dir |-> dir]

\* getCompositeRunContext that refreshes the environment of an existing child only.
getCompositeRunContextEnvOnly(child, parentEnv, parentExtraPath, dir) ==
    IF child.isNil
    THEN [newCompositeRunContext(child, parentEnv, parentExtraPath, dir)
            EXCEPT !.built = @ + 1]
    ELSE [child EXCEPT !.Env = evaluateCompositeInputAndEnv(parentEnv)]

\* getCompositeRunContext: sar.compositeRunContext after the call, which is also what is
\* returned. The first call makes the child for the action's directory and builds the
\* step list, a later one refreshes the child's environment and extra path.
getCompositeRunContext(child, parentEnv, parentExtraPath, dir) ==
    IF child.isNil
    THEN [newCompositeRunContext(child, parentEnv, parentExtraPath, dir)
            EXCEPT !.built = @ + 1]
    ELSE [child EXCEPT !.Env = evaluateCompositeInputAndEnv(parentEnv),
                       !.ExtraPath = parentExtraPath]

\* The stage after st, and where it starts: pre and main start with
\* prepareActionExecutor, post with the stage itself.
NextStage(p) ==
    CASE stage[p] = "pre" -> stage' = [stage EXCEPT ![p] = "main"] /\ Goto(p, "prepare")
      [] stage[p] = "main" /\ cfg[p].hasPost ->
           stage' = [stage EXCEPT ![p] = "post"] /\ Goto(p, "stageBody")
      [] OTHER -> Goto(p, "stepsDone") /\ UNCHANGED stage

\* The body of a stage whose action is composite asks for the child Run Context.
CompositeCall(p) ==
    LET child == getCompositeRunContext(compositeRunContext[p], Env[p], ExtraPath[p],
                                        compositeActionDir(cfg[p], environ))
    IN  /\ compositeRunContext' = [compositeRunContext EXCEPT ![p] = child]
        /\ Called(p, [op |-> "getCompositeRunContext", ret |-> child,
                      parentEnv |-> Env[p], parentExtraPath |-> ExtraPath[p]])

\* runStepExecutor of a stage: the stage applies or not; its condition is evaluated; its
\* body is run when the condition holds. The body of main copies the workspace for a
\* local checkout (unless it is bound) and runs the action otherwise.
RunStage(p) ==
    /\ pc[p] = "stageBody"
    /\ LET c == cfg[p]
           st == stage[p]
           applies == StageApplies(c, st, action[p])
           cond == IF applies THEN EvalBool(getIfExpression(c, st)) ELSE "false"
           evaluated == IF applies THEN Traced(hist, p, "cond") ELSE hist
           skip == st = "main" /\ SkipCheckout(c)
       IN  IF cond = "error"
           THEN /\ StepFail(p)
                /\ hist' = [evaluated EXCEPT !.err[p] = [kind |-> "stepCondition"]]
                /\ UNCHANGED <<stage, compositeRunContext, calls>>
           ELSE IF cond = "false"
           THEN /\ NextStage(p)
                /\ hist' = evaluated
                /\ UNCHANGED <<result, compositeRunContext, calls>>
           ELSE IF skip /\ c.bindWorkdir
           THEN /\ NextStage(p)
                /\ hist' = Traced(evaluated, p, "body")
                /\ UNCHANGED <<result, compositeRunContext, calls>>
           ELSE /\ NextStage(p)
                /\ \E ok \in BOOLEAN :
                      result' = [result EXCEPT ![p] = IF ok THEN @ ELSE "error"]
                /\ IF skip
                   THEN /\ hist' = [Traced(evaluated, p, "body") EXCEPT !.copyDir = @ + 1]
                        /\ UNCHANGED <<compositeRunContext, calls>>
                   ELSE /\ hist' = IF st = "main"
                                   THEN [Traced(evaluated, p, "body") EXCEPT
                                           !.stepsRun = @ + 1,
                                           !.dirs[p].main = @ \cup {mainActionDir(c,
                                                 environ)}]
                                   ELSE Traced(evaluated, p, "body")
                        /\ IF c.using = "composite"
                           THEN CompositeCall(p)
                           ELSE UNCHANGED <<compositeRunContext, calls>>
    /\ UNCHANGED <<cfg, environ, StepResults, layers, Env, ExtraPath, ContainerDaemonSocket,
                   remoteAction, action, executorLock, dirExists, dirInit, containerVars>>

(***************************************************************************)
(* startContainer: host environment or job container with its services     *)
(***************************************************************************)
\* The job executor goes on with the job's steps once the environment is up.
AfterStart(p) ==
    /\ pc' = [pc EXCEPT ![p] = IF cfg[p].uses = NoUses THEN "stepsDone" ELSE "prepare"]
    /\ UNCHANGED result

StateFiles ==
    {[name |-> "workflow/event.json", body |-> "EventJSON"],
     [name |-> "workflow/envs.txt", body |-> ""]}

StartHostEnvironment(p) ==
    /\ pc[p] = "startContainer"
    /\ IsHostEnv(cfg[p])
    /\ \E out \in {"mkdirErr", "copyErr", "ok"} :
          IF out = "mkdirErr"
          THEN /\ \E partial \in BOOLEAN :
                     scratchDir' = IF partial THEN "present" ELSE "absent"
               /\ Finish(p, "error")
               /\ UNCHANGED <<JobContainer, cleanUpJobContainer, jobOp, files, Env, calls>>
          ELSE /\ scratchDir' = "present"
               /\ JobContainer' = [kind |-> "host", image |-> "", net |-> ""]
               /\ cleanUpJobContainer' = "host"
               /\ IF Env[p].isNil
                  THEN \* an assignment to an entry of the nil map panics
                       /\ Finish(p, "panic")
                       /\ UNCHANGED <<jobOp, files, Env, calls>>
                  ELSE /\ Env' = [Env EXCEPT ![p].m = AmbientEnv(RunnerEnv(@), environ, 1)]
                       /\ Called(p, [op |-> "startHostEnvironment",
                                     before |-> [isNil |-> FALSE, m |-> RunnerEnv(Env[p].m)],
                                     ret |-> AmbientEnv(RunnerEnv(Env[p].m), environ, 1)])
                       /\ jobOp' = [jobOp EXCEPT !.copy = IF out = "ok" THEN "ok" ELSE "err"]
                       /\ files' = IF out = "ok" THEN StateFiles ELSE files
                       /\ IF out = "ok" THEN AfterStart(p) ELSE Finish(p, "error")
    /\ UNCHANGED <<cfg, remoteAction, action, stage, fetchVars, ServiceContainers,
                   svcOp, network, stopResult, environ, StepResults, layers, ExtraPath,
                   compositeRunContext, ContainerDaemonSocket>>

\* networkName of startJobContainer.
networkName(c) ==
    IF NeedCreateNetwork(c) THEN NetworkNameOf(JobName) ELSE ContainerNetworkMode

\* Orders in which the services map may be iterated.
Perms(S) ==
    {f \in [1..Cardinality(S) -> S] : \A i, j \in 1..Cardinality(S) : f[i] = f[j] => i = j}

Min(S) == CHOOSE x \in S : \A y \in S : x <= y

\* Credential resolution of a service succeeds.
CredentialsOK(kind) == handleServiceCredentials(Credentials(kind)) = "ok"

\* The pipeline with the job container created before the services are started.
StartPipelineJobFirst ==
    <<"pullServices", "jobPull", "createNetwork", "jobCreate",
      "startServices", "jobStart", "jobCopy">>

\* The pipeline with the network created after the services are started.
StartPipelineNetworkLate ==
    <<"pullServices", "jobPull", "startServices", "createNetwork",
      "jobCreate", "jobStart", "jobCopy">>

\* The operations of startJobContainer's pipeline, in the order they are composed.
StartPipeline ==
    <<"pullServices", "jobPull", "createNetwork", "startServices",
      "jobCreate", "jobStart", "jobCopy">>

\* What the pipeline runs after phase ph has succeeded.
NextPhase(ph) ==
    LET i == CHOOSE k \in 1..Len(StartPipeline) : StartPipeline[k] = ph
    IN  IF i < Len(StartPipeline) THEN StartPipeline[i + 1] ELSE "started"

\* Phase ph succeeded: run the next executor of the pipeline, or return to the job executor.
Advance(p, ph) ==
    IF NextPhase(ph) = "started" THEN AfterStart(p)
    ELSE Goto(p, NextPhase(ph)) /\ UNCHANGED result

\* handleCredentials' error, returned as "failed to handle credentials: %s".
CredentialsError(cause) == [kind |-> "credentials", cause |-> cause]

\* "failed to handle service %s credentials: %w"
ServiceCredentialsError(svc, cause) ==
    [kind |-> "serviceCredentials", service |-> svc, cause |-> cause]

\* startJobContainer up to the pipeline: credentials, binds and mounts, service handles,
\* the cleanup closure and the job container handle.
StartJobContainer(p) ==
    /\ pc[p] = "startContainer"
    /\ ~IsHostEnv(cfg[p])
    /\ LET c == cfg[p]
       IN  IF handleCredentials(c) # "ok"
           THEN /\ Finish(p, "error")
                /\ Returns(p, CredentialsError(handleCredentials(c)))
                /\ UNCHANGED <<JobContainer, ServiceContainers, cleanUpJobContainer, svcOp,
                               ContainerDaemonSocket, calls>>
           ELSE \E order \in Perms(c.services) :
                  LET bad == {i \in 1..Len(order) : ~CredentialsOK(c.svcCreds[order[i]])}
                      k == IF bad = {} THEN Len(order) ELSE Min(bad) - 1
                      handles == [i \in 1..k |->
                                    [svc |-> order[i], net |-> networkName(c),
                                     creds |-> c.svcCreds[order[i]]]]
                      bm == GetBindsAndMounts(c, ContainerDaemonSocket[p])
                  IN  /\ ContainerDaemonSocket' =
                             [ContainerDaemonSocket EXCEPT ![p] = bm.socket]
                      /\ Called(p, [op |-> "GetBindsAndMounts",
                                    socket |-> ContainerDaemonSocket[p],
                                    binds |-> bm.binds, mounts |-> bm.mounts])
                      /\ ServiceContainers' = ServiceContainers \o handles
                      /\ svcOp' = svcOp \o [i \in 1..k |-> IdleSvcOps]
                      /\ IF bad # {}
                         THEN /\ Finish(p, "error")
                              /\ Returns(p, ServiceCredentialsError(order[Min(bad)],
                                     handleServiceCredentials(
                                        Credentials(c.svcCreds[order[Min(bad)]]))))
                              /\ UNCHANGED <<JobContainer, cleanUpJobContainer>>
                         ELSE /\ cleanUpJobContainer' = "docker"
                              /\ JobContainer' = [kind |-> "docker", image |-> platformImage(c),
                                                  net |-> networkName(c)]
                              /\ Goto(p, StartPipeline[1])
                              /\ UNCHANGED <<result, hist>>
    /\ UNCHANGED <<cfg, environ, StepResults, layers, Env, ExtraPath, compositeRunContext,
                   remoteAction, action, stage, executorLock, dirExists, dirInit,
                   jobOp, network, scratchDir, files, stopResult>>

Handles == 1..Len(ServiceContainers)

Finished(st) == st \in {"ok", "err"}

\* pullServicesImages: one Pull per handle, run in parallel.
SvcPullBegin(p, i) ==
    /\ pc[p] = "pullServices"
    /\ svcOp[i].pull = "idle"
    /\ svcOp' = [svcOp EXCEPT ![i].pull = "run"]
    /\ UNCHANGED <<procVars, ctxVars, fetchVars, JobContainer, ServiceContainers,
                   cleanUpJobContainer, jobOp, network, scratchDir, files, stopResult>>

SvcPullEnd(p, i) ==
    /\ pc[p] = "pullServices"
    /\ svcOp[i].pull = "run"
    /\ \E ok \in BOOLEAN : svcOp' = [svcOp EXCEPT ![i].pull = IF ok THEN "ok" ELSE "err"]
    /\ UNCHANGED <<procVars, ctxVars, fetchVars, JobContainer, ServiceContainers,
                   cleanUpJobContainer, jobOp, network, scratchDir, files, stopResult>>

\* The parallel executor returns once every Pull has returned.
PullServicesDone(p) ==
    /\ pc[p] = "pullServices"
    /\ \A i \in Handles : Finished(svcOp[i].pull)
    /\ IF \E i \in Handles : svcOp[i].pull = "err"
       THEN Finish(p, "error")
       ELSE Advance(p, "pullServices")
    /\ UNCHANGED <<cfg, ctxVars, remoteAction, action, stage, fetchVars, containerVars>>

\* A single driver operation of the job: issued and returned in one step.
JobOpStep(p, ph, op) ==
    /\ pc[p] = ph
    /\ \E ok \in BOOLEAN :
          /\ jobOp' = [jobOp EXCEPT ![op] = IF ok THEN "ok" ELSE "err"]
          /\ IF ok THEN Advance(p, ph) ELSE Finish(p, "error")

JobPull(p) ==
    /\ JobOpStep(p, "jobPull", "pull")
    /\ UNCHANGED <<cfg, ctxVars, remoteAction, action, stage, fetchVars, JobContainer,
                   ServiceContainers, cleanUpJobContainer, svcOp, network, scratchDir,
                   files, stopResult>>

\* createNetwork(networkName).IfBool(NeedCreateNetwork)
CreateNetwork(p) ==
    /\ pc[p] = "createNetwork"
    /\ IF NeedCreateNetwork(cfg[p])
       THEN \E ok \in BOOLEAN :
              /\ jobOp' = [jobOp EXCEPT !.netCreate = IF ok THEN "ok" ELSE "err"]
              /\ network' = IF ok THEN networkName(cfg[p]) ELSE network
              /\ IF ok THEN Advance(p, "createNetwork") ELSE Finish(p, "error")
       ELSE Advance(p, "createNetwork") /\ UNCHANGED <<jobOp, network>>
    /\ UNCHANGED <<cfg, ctxVars, remoteAction, action, stage, fetchVars, JobContainer,
                   ServiceContainers, cleanUpJobContainer, svcOp, scratchDir, files,
                   stopResult>>

\* startServiceContainers: per handle the pipeline Pull, Create, Start; a pipeline
\* stops at its first error.
ServicePipeline == <<"pull2", "create", "start">>

\* The operation handle h's pipeline issues next, or "none".
NextServiceOp(h) ==
    LET todo == {k \in 1..Len(ServicePipeline) :
                   /\ h[ServicePipeline[k]] = "idle"
                   /\ \A j \in 1..(k - 1) : h[ServicePipeline[j]] = "ok"}
    IN  IF todo = {} THEN "none" ELSE ServicePipeline[Min(todo)]

RunningServiceOp(h) ==
    LET run == {k \in 1..Len(ServicePipeline) : h[ServicePipeline[k]] = "run"}
    IN  IF run = {} THEN "none" ELSE ServicePipeline[Min(run)]

\* A service pipeline counted as returned as soon as any service's pipeline has failed.
ServicePipelineDoneOrAnyFailed(h) ==
    \/ \E i \in Handles : \E k \in 1..Len(ServicePipeline) :
          svcOp[i][ServicePipeline[k]] = "err"
    \/ \A k \in 1..Len(ServicePipeline) : h[ServicePipeline[k]] = "ok"

\* The pipeline of a handle has returned: with its first error, or after its last
\* operation.
ServicePipelineDone(h) ==
    \/ \E k \in 1..Len(ServicePipeline) : h[ServicePipeline[k]] = "err"
    \/ \A k \in 1..Len(ServicePipeline) : h[ServicePipeline[k]] = "ok"

SvcStartBegin(p, i) ==
    /\ pc[p] = "startServices"
    /\ RunningServiceOp(svcOp[i]) = "none"
    /\ NextServiceOp(svcOp[i]) # "none"
    /\ svcOp' = [svcOp EXCEPT ![i][NextServiceOp(svcOp[i])] = "run"]
    /\ UNCHANGED <<procVars, ctxVars, fetchVars, JobContainer, ServiceContainers,
                   cleanUpJobContainer, jobOp, network, scratchDir, files, stopResult>>

SvcStartEnd(p, i) ==
    /\ pc[p] = "startServices"
    /\ RunningServiceOp(svcOp[i]) # "none"
    /\ \E ok \in BOOLEAN :
          svcOp' = [svcOp EXCEPT ![i][RunningServiceOp(svcOp[i])] = IF ok THEN "ok" ELSE "err"]
    /\ UNCHANGED <<procVars, ctxVars, fetchVars, JobContainer, ServiceContainers,
                   cleanUpJobContainer, jobOp, network, scratchDir, files, stopResult>>

\* The parallel executor returns once every service pipeline has returned.
StartServicesDone(p) ==
    /\ pc[p] = "startServices"
    /\ \A i \in Handles : ServicePipelineDone(svcOp[i])
    /\ IF \E i \in Handles : \E k \in 1..Len(ServicePipeline) :
              svcOp[i][ServicePipeline[k]] = "err"
       THEN Finish(p, "error")
       ELSE Advance(p, "startServices")
    /\ UNCHANGED <<cfg, ctxVars, remoteAction, action, stage, fetchVars, containerVars>>

JobCreate(p) ==
    /\ JobOpStep(p, "jobCreate", "create")
    /\ UNCHANGED <<cfg, ctxVars, remoteAction, action, stage, fetchVars, JobContainer,
                   ServiceContainers, cleanUpJobContainer, svcOp, network, scratchDir,
                   files, stopResult>>

JobStart(p) ==
    /\ JobOpStep(p, "jobStart", "start")
    /\ UNCHANGED <<cfg, ctxVars, remoteAction, action, stage, fetchVars, JobContainer,
                   ServiceContainers, cleanUpJobContainer, svcOp, network, scratchDir,
                   files, stopResult>>

\* Copy of workflow/event.json and the empty workflow/envs.txt.
JobCopy(p) ==
    /\ JobOpStep(p, "jobCopy", "copy")
    /\ files' = IF jobOp'.copy = "ok" THEN StateFiles ELSE files
    /\ UNCHANGED <<cfg, ctxVars, remoteAction, action, stage, fetchVars, JobContainer,
                   ServiceContainers, cleanUpJobContainer, svcOp, network, scratchDir,
                   stopResult>>

(***************************************************************************)
(* Teardown                                                                *)
(***************************************************************************)
\* The job executor's exit path: release the services, then stop the container.
StepsDone(p) ==
    /\ pc[p] = "stepsDone"
    /\ Goto(p, IF ReuseContainers(cfg[p]) THEN "stopContainer" ELSE "stopServices")
    /\ UNCHANGED <<cfg, ctxVars, result, remoteAction, action, stage, fetchVars,
                   containerVars>>

\* stopServiceContainers missing the last handle of the list.
RemoveTargetsButLast == {i \in Handles : i < Len(ServiceContainers)}

\* stopServiceContainers: one Remove per handle of rc.ServiceContainers, in parallel.
RemoveTargets == Handles

SvcRemoveBegin(p, i) ==
    /\ pc[p] = "stopServices"
    /\ i \in RemoveTargets
    /\ svcOp[i].remove = "idle"
    /\ svcOp' = [svcOp EXCEPT ![i].remove = "run"]
    /\ UNCHANGED <<procVars, ctxVars, fetchVars, JobContainer, ServiceContainers,
                   cleanUpJobContainer, jobOp, network, scratchDir, files, stopResult>>

SvcRemoveEnd(p, i) ==
    /\ pc[p] = "stopServices"
    /\ svcOp[i].remove = "run"
    /\ \E ok \in BOOLEAN : svcOp' = [svcOp EXCEPT ![i].remove = IF ok THEN "ok" ELSE "err"]
    /\ UNCHANGED <<procVars, ctxVars, fetchVars, JobContainer, ServiceContainers,
                   cleanUpJobContainer, jobOp, network, scratchDir, files, stopResult>>

\* Every Remove has returned; an error is logged by the job executor.
StopServicesDone(p) ==
    /\ pc[p] = "stopServices"
    /\ \A i \in RemoveTargets : Finished(svcOp[i].remove)
    /\ Goto(p, "stopContainer")
    /\ UNCHANGED <<cfg, ctxVars, result, remoteAction, action, stage, fetchVars,
                   containerVars>>

\* Remove().Then(volume remove).Then(env volume remove): the operation number `fail`
\* returns an error (0: none does), and the ones after it are not issued.
CleanUpOps(fail) ==
    LET st(k) == IF fail = 0 \/ k < fail THEN "ok" ELSE IF k = fail THEN "err" ELSE "idle"
    IN  [jobOp EXCEPT !.remove = st(1), !.volRemove = st(2), !.volEnvRemove = st(3)]

\* The cleanup closure with the removal errors dropped.
CleanUpResultSwallowed(fail) == "ok"

\* What the cleanup closure, and with it stopJobContainer, returns.
CleanUpResult(fail) == IF fail = 0 THEN "ok" ELSE "error"

\* stopContainer = stopJobContainer; the job executor logs its error and goes on.
StopContainer(p) ==
    /\ pc[p] = "stopContainer"
    /\ LET c == cfg[p]
       IN  IF cleanUpJobContainer # Nil /\ ~ReuseContainers(c)
           THEN IF cleanUpJobContainer = "host"
                THEN \E ok \in BOOLEAN :
                       /\ jobOp' = [jobOp EXCEPT !.hostRemove = IF ok THEN "ok" ELSE "err"]
                       /\ scratchDir' = IF ok THEN "removed" ELSE scratchDir
                       /\ stopResult' = IF ok THEN "ok" ELSE "error"
                ELSE IF JobContainer.kind # Nil /\ ~ReuseContainers(c)
                     THEN \E fail \in 0..3 :
                            /\ jobOp' = CleanUpOps(fail)
                            /\ stopResult' = CleanUpResult(fail)
                            /\ UNCHANGED scratchDir
                     ELSE stopResult' = "ok" /\ UNCHANGED <<jobOp, scratchDir>>
           ELSE stopResult' = "ok" /\ UNCHANGED <<jobOp, scratchDir>>
    /\ Finish(p, IF result[p] = "error" THEN "error" ELSE "ok")
    /\ UNCHANGED <<cfg, ctxVars, remoteAction, action, stage, fetchVars, JobContainer,
                   ServiceContainers, cleanUpJobContainer, svcOp, network, files>>

(***************************************************************************)
(* A second start on the same Run Context                                  *)
(***************************************************************************)
\* Largest number of times the start executor is run again on one Run Context.
MaxRestarts == 1

\* The executor returned by startContainer() is run again on a Run Context whose job
\* executor has returned: the fields of the Run Context are as the earlier run left
\* them, and no operation of the new run has been issued.
StartContainerAgain(p) ==
    /\ pc[p] = "done"
    /\ cfg[p].jobType = "Default"
    /\ hist.restarts < MaxRestarts
    /\ hist' = [hist EXCEPT !.restarts = @ + 1]
    /\ pc' = [pc EXCEPT ![p] = "startContainer"]
    /\ result' = [result EXCEPT ![p] = "none"]
    /\ jobOp' = IdleJobOps
    /\ svcOp' = [i \in Handles |-> IdleSvcOps]
    /\ stopResult' = "none"
    /\ UNCHANGED <<cfg, ctxVars, remoteAction, action, stage, executorLock, dirExists,
                   dirInit, JobContainer, ServiceContainers, cleanUpJobContainer, network,
                   scratchDir, files>>

(***************************************************************************)
(* Calls of the Run Context's accessors                                    *)
(***************************************************************************)
\* Largest number of accessor calls and layer changes on one Run Context, the start of
\* its environment not counted.
MaxCalls == 3

\* A caller may call an accessor of p's Run Context or change a layer.
MayCall(p) ==
    /\ pc[p] # "off"
    /\ Len(calls[p]) - Cardinality(CallsOf(p, "startHostEnvironment")) < MaxCalls

\* A caller of the Run Context asks for its environment.
CallGetEnv(p) ==
    /\ MayCall(p)
    /\ Env' = [Env EXCEPT ![p] = GetEnv(Env[p], layers[p])]
    /\ Called(p, [op |-> "GetEnv", before |-> Env[p], layers |-> layers[p],
                  ret |-> GetEnv(Env[p], layers[p]).m])
    /\ UNCHANGED <<procVars, fetchVars, containerVars, environ, StepResults, layers,
                   ExtraPath, compositeRunContext, ContainerDaemonSocket>>

\* Config.Env, a map the Run Context only refers to, gets an entry.
SetLayer(p) ==
    /\ MayCall(p)
    /\ layers' = [layers EXCEPT ![p].config = (<<"B">> :> <<"l", "a", "t", "e">>) @@ @]
    /\ Called(p, [op |-> "SetLayer"])
    /\ UNCHANGED <<procVars, fetchVars, containerVars, environ, StepResults, Env, ExtraPath,
                   compositeRunContext, ContainerDaemonSocket>>

\* A caller of the Run Context asks for the binds and mounts of the job container.
CallGetBindsAndMounts(p) ==
    /\ MayCall(p)
    /\ LET r == GetBindsAndMounts(cfg[p], ContainerDaemonSocket[p])
       IN  /\ ContainerDaemonSocket' = [ContainerDaemonSocket EXCEPT ![p] = r.socket]
           /\ Called(p, [op |-> "GetBindsAndMounts", socket |-> ContainerDaemonSocket[p],
                         binds |-> r.binds, mounts |-> r.mounts])
    /\ UNCHANGED <<procVars, fetchVars, containerVars, environ, StepResults, layers, Env,
                   ExtraPath,
                   compositeRunContext>>

\* addPath: the path is put in front of the list, which holds it once.
addPath(extraPath, arg) == <<arg>> \o SelectSeq(extraPath, LAMBDA v : v # arg)

\* UpdateExtraPath, run after another step of the job: nothing in a dry run or when the
\* file cannot be read, else every non-empty line of the file is added.
UpdateExtraPath(p) ==
    /\ pc[p] \in {"prepare", "stageBody"}
    /\ \E out \in {"dryrun", "error", "read"}, line \in {"", "/opt/a"} :
          ExtraPath' = [ExtraPath EXCEPT
                          ![p] = IF out = "read" /\ line # "" THEN addPath(@, line) ELSE @]
    /\ ExtraPath' # ExtraPath
    /\ UNCHANGED <<procVars, fetchVars, containerVars, environ, StepResults, layers, Env,
                   compositeRunContext, ContainerDaemonSocket, calls>>

\* Another step of the job writes a variable to the Run Context's environment.
SetEnv(p) ==
    /\ pc[p] \in {"prepare", "stageBody"}
    /\ ~Env[p].isNil
    /\ Env' = [Env EXCEPT ![p].m = (<<"O", "U", "T">> :> <<"1">>) @@ @]
    /\ Env' # Env
    /\ UNCHANGED <<procVars, fetchVars, containerVars, environ, StepResults, layers,
                   ExtraPath,
                   compositeRunContext, ContainerDaemonSocket, calls>>

\* The job container of p's Run Context is named, as startJobContainer and the
\* workspace mount do.
CallJobContainerName(p) ==
    /\ MayCall(p)
    /\ Called(p, [op |-> "jobContainerName", ret |-> jobContainerName(cfg[p]),
                  context |-> String(cfg[p])])
    /\ UNCHANGED <<procVars, fetchVars, containerVars, environ, StepResults, layers, Env,
                   ExtraPath,
                   compositeRunContext, ContainerDaemonSocket>>

\* getJobContext that reads the outcome of a step instead of its conclusion.
getJobContextByOutcome(stepResults) ==
    [Status |-> IF \E id \in DOMAIN stepResults : stepResults[id].Outcome = "failure"
                THEN "failure" ELSE "success",
     StepResults |-> stepResults]

\* getJobContext: the job's status, and rc.StepResults as the call leaves it. The loop
\* stops at the first step result with the conclusion failure.
getJobContext(stepResults) ==
    [Status |-> IF \E id \in DOMAIN stepResults : stepResults[id].Conclusion = "failure"
                THEN "failure" ELSE "success",
     StepResults |-> stepResults]

\* A caller asks for the job context of p's Run Context.
CallGetJobContext(p) ==
    /\ MayCall(p)
    /\ LET jc == getJobContext(StepResults[p])
       IN  /\ StepResults' = [StepResults EXCEPT ![p] = jc.StepResults]
           /\ Called(p, [op |-> "getJobContext", Status |-> jc.Status,
                         before |-> StepResults[p], after |-> jc.StepResults])
    /\ UNCHANGED <<procVars, fetchVars, containerVars, environ, layers, Env, ExtraPath,
                   compositeRunContext, ContainerDaemonSocket>>

(***************************************************************************)
(* Specifications                                                          *)
(***************************************************************************)
FetchStep(p) ==
    \/ Lock(p)
    \/ CloneIfRequired(p)
    \/ CloneDoneUnlock(p)
    \/ Unlock(p)
    \/ RunReusableWorkflow(p)
    \/ PrepareActionExecutor(p)
    \/ ActionCloneDone(p)
    \/ ReadAction(p)
    \/ RunStage(p)

ContainerStep(p) ==
    \/ StartHostEnvironment(p)
    \/ StartJobContainer(p)
    \/ \E i \in Handles : SvcPullBegin(p, i)
    \/ \E i \in Handles : SvcPullEnd(p, i)
    \/ PullServicesDone(p)
    \/ JobPull(p)
    \/ CreateNetwork(p)
    \/ \E i \in Handles : SvcStartBegin(p, i)
    \/ \E i \in Handles : SvcStartEnd(p, i)
    \/ StartServicesDone(p)
    \/ JobCreate(p)
    \/ JobStart(p)
    \/ JobCopy(p)
    \/ StepsDone(p)
    \/ \E i \in Handles : SvcRemoveBegin(p, i)
    \/ \E i \in Handles : SvcRemoveEnd(p, i)
    \/ StopServicesDone(p)
    \/ StopContainer(p)

Next == \E p \in Procs : Executor(p) \/ FetchStep(p) \/ ContainerStep(p)

NextFetch == \E p \in Procs : FetchStep(p)

Spec == Init /\ [][Next]_vars

SpecFetch == InitFetch /\ [][NextFetch]_vars

LockStep(p) ==
    \/ StartChild(p)
    \/ Lock(p)
    \/ CloneIfRequired(p)
    \/ CloneDoneUnlock(p)
    \/ Unlock(p)
    \/ RunReusableWorkflow(p)

NextLock == \E p \in Procs : LockStep(p)

\* Reusable-workflow callers, each scheduled as long as it can take a step: the fetcher
\* returns, goroutines run, and the lock is handed to a waiting caller.
SpecLock == InitLock /\ [][NextLock]_vars /\ \A p \in Procs : WF_vars(LockStep(p))

NextStart == \E p \in Procs : Executor(p) \/ ContainerStep(p)

SpecStart == InitStart /\ [][NextStart]_vars

NextRefs == \E p \in Procs : Executor(p) \/ FetchStep(p)

SpecRefs == InitRefs /\ [][NextRefs]_vars

NextEnv ==
    \E p \in Procs :
       \/ CallGetEnv(p)
       \/ SetLayer(p)
       \/ CallGetBindsAndMounts(p)
       \/ StartHostEnvironment(p)

SpecEnv == InitEnv /\ [][NextEnv]_vars

StageStep(p) ==
    \/ PrepareActionExecutor(p)
    \/ ActionCloneDone(p)
    \/ ReadAction(p)
    \/ RunStage(p)

NextStages == \E p \in Procs : StageStep(p) \/ UpdateExtraPath(p) \/ SetEnv(p)

SpecStages == InitStages /\ [][NextStages]_vars

NextTwins == \E p \in Procs : StageStep(p)

SpecTwins == InitTwins /\ [][NextTwins]_vars

NextNames == \E p \in Procs : CallJobContainerName(p)

SpecNames == InitNames /\ [][NextNames]_vars

NextStatus == \E p \in Procs : CallGetJobContext(p)

SpecStatus == InitStatus /\ [][NextStatus]_vars

NextRestart ==
    \E p \in Procs :
       \/ StartJobContainer(p)
       \/ \E i \in Handles : SvcPullBegin(p, i)
       \/ \E i \in Handles : SvcPullEnd(p, i)
       \/ PullServicesDone(p)
       \/ JobPull(p)
       \/ CreateNetwork(p)
       \/ \E i \in Handles : SvcStartBegin(p, i)
       \/ \E i \in Handles : SvcStartEnd(p, i)
       \/ StartServicesDone(p)
       \/ JobCreate(p)
       \/ JobStart(p)
       \/ JobCopy(p)
       \/ StepsDone(p)
       \/ \E i \in Handles : SvcRemoveBegin(p, i)
       \/ \E i \in Handles : SvcRemoveEnd(p, i)
       \/ StopServicesDone(p)
       \/ StopContainer(p)
       \/ StartContainerAgain(p)

SpecRestart == InitRestart /\ [][NextRestart]_vars

(***************************************************************************)
(* Properties                                                              *)
(***************************************************************************)
Running == {p \in Procs : pc[p] # "off"}

DockerJob == JobContainer.kind = "docker"

\* C1: a job whose condition evaluates to false, of any kind, makes Executor() return
\* success without any provisioning operation, any fetch or any step execution.
C1_DisabledJobRunsNothing ==
    \A p \in Running :
        cfg[p].ifExpr = "false" =>
            /\ pc[p] \in {"Executor", "done"}
            /\ pc[p] = "done" => result[p] = "ok"
            /\ jobOp = IdleJobOps /\ svcOp = <<>> /\ ServiceContainers = <<>>
            /\ JobContainer = NoContainer /\ cleanUpJobContainer = Nil
            /\ scratchDir = "absent" /\ network = Nil /\ files = {}
            /\ executorLock = 0 /\ dirExists = dirInit
            /\ \A d \in Dirs : hist.fetches[d] = 0
            /\ hist.stepsRun = 0 /\ hist.childRuns = 0

C1_Witness ==
    \E p \in Running :
        /\ cfg[p].ifExpr = "false" /\ pc[p] = "done"
        /\ cfg[p].jobType = "ReusableWorkflowRemote"
        /\ newRemoteReusableWorkflow(JobUses(cfg[p])) # NoWorkflow

\* C2: the driver operations of startJobContainer begin phase by phase: every service
\* image pull, the job image pull, the network create (only with NeedCreateNetwork),
\* every service's pull, create and start, the job container's create, its start, the
\* copy of the two state files; an operation begins only when all operations of the
\* phases before it have returned successfully, and a successful start has run them all.
C2_StartupOrder ==
    \A p \in Running :
        DockerJob =>
            LET need == cfg[p].needNet
                begun(st) == st # "idle"
                pulled == \A i \in Handles : svcOp[i].pull = "ok"
                netReady == IF need THEN jobOp.netCreate = "ok" ELSE jobOp.netCreate = "idle"
                svcUp == \A i \in Handles :
                            svcOp[i].pull2 = "ok" /\ svcOp[i].create = "ok" /\ svcOp[i].start = "ok"
            IN  /\ begun(jobOp.pull) => pulled
                /\ begun(jobOp.netCreate) => need /\ pulled /\ jobOp.pull = "ok"
                /\ \A i \in Handles :
                      /\ begun(svcOp[i].pull2) => pulled /\ jobOp.pull = "ok" /\ netReady
                      /\ begun(svcOp[i].create) => svcOp[i].pull2 = "ok"
                      /\ begun(svcOp[i].start) => svcOp[i].create = "ok"
                /\ begun(jobOp.create) => pulled /\ jobOp.pull = "ok" /\ netReady /\ svcUp
                /\ begun(jobOp.start) => jobOp.create = "ok"
                /\ begun(jobOp.copy) => jobOp.start = "ok"
                /\ jobOp.copy = "ok" => files = StateFiles
                /\ jobOp.copy # "ok" => files = {}

C2_Witness ==
    /\ DockerJob /\ jobOp.copy = "ok" /\ Len(ServiceContainers) = 2
    /\ \E p \in Running : cfg[p].needNet

\* C3: a network is created during the job start only with NeedCreateNetwork; with it
\* the create has returned before any service or job container is created, and the job
\* container and every service container carry the created network's name.
C3_NetworkBeforeContainers ==
    \A p \in Running :
        DockerJob =>
            LET creating == \/ jobOp.create # "idle"
                            \/ \E i \in Handles : svcOp[i].create # "idle"
            IN  /\ jobOp.netCreate # "idle" => cfg[p].needNet
                /\ ~cfg[p].needNet => network = Nil
                /\ (cfg[p].needNet /\ creating) => jobOp.netCreate = "ok" /\ network # Nil
                /\ network # Nil =>
                      /\ JobContainer.net = network
                      /\ \A i \in Handles : ServiceContainers[i].net = network

C3_Witness ==
    /\ DockerJob /\ network # Nil /\ jobOp.create = "ok" /\ Len(ServiceContainers) >= 1

\* C4: fetches of remote actions and of reusable workflows are all serialized by the
\* one lock: at no time are two invocations of the fetcher in progress.
C4_FetchesSerialized == Cardinality({p \in Procs : InClone(p)}) <= 1

\* C5: when several callers need the same cache directory, absent at first, the fetcher
\* is not invoked for it again while or after another caller fetches it.
C5_NoDuplicateFetch == hist.dup = {}

\* C6: the fetcher is never invoked for a target directory that already exists, on the
\* remote-action path as on the reusable-workflow path.
C6_NoFetchIntoExistingDir == hist.onExisting = {}

StopRan == stopResult # "none"

RemovalOps == {"remove", "volRemove", "volEnvRemove", "hostRemove"}

\* C7 as stated: stopContainer's executor never returns an error.
C7_StopContainerNeverFails == stopResult # "error"

\* C7: stopContainer's executor returns an error exactly when a removal operation it
\* issued failed; the removals that follow the failed one are not issued.
C7_StopContainerReturnsRemovalError ==
    StopRan =>
        /\ stopResult = "error" <=> \E op \in RemovalOps : jobOp[op] = "err"
        /\ jobOp.remove = "err" => jobOp.volRemove = "idle" /\ jobOp.volEnvRemove = "idle"
        /\ jobOp.volRemove = "err" => jobOp.remove = "ok" /\ jobOp.volEnvRemove = "idle"
        /\ jobOp.volEnvRemove = "err" => jobOp.remove = "ok" /\ jobOp.volRemove = "ok"

C7_Witness == stopResult = "error" /\ jobOp.volRemove = "err" /\ DockerJob

\* C8: when the job ran in the host environment, stopContainer attempts the removal of
\* the scratch directory whatever the configuration, ReuseContainers included.
C8_HostScratchRemovalAttempted ==
    (StopRan /\ JobContainer.kind = "host") => jobOp.hostRemove # "idle"

\* C9: with ReuseContainers set and a container job, stopContainer issues neither the
\* container remove nor a volume remove, and returns success.
C9_ReuseSkipsRemoval ==
    \A p \in Running :
        (cfg[p].reuse /\ DockerJob) =>
            /\ jobOp.remove = "idle" /\ jobOp.volRemove = "idle" /\ jobOp.volEnvRemove = "idle"
            /\ stopResult \in {"none", "ok"}

C9_Witness ==
    \E p \in Running : cfg[p].reuse /\ DockerJob /\ jobOp.start = "ok" /\ stopResult = "ok"

Slashes(s) == {i \in 1..Len(s) : s[i] = "/"}
Ats(s) == {i \in 1..Len(s) : s[i] = "@"}

\* A non-empty string without any of the given characters.
Field(s, without) == s # <<>> /\ \A i \in 1..Len(s) : s[i] \notin without

\* {org}/{repo}[/{path}]@{ref}: org and repo are non-empty and hold no separator, the
\* path holds no `@` and the ref is non-empty.
BareActionForm(s) ==
    \E a \in Ats(s), i \in Slashes(s) :
       /\ i < a /\ a < Len(s)
       /\ Field(SubSeq(s, 1, i - 1), {"/", "@"})
       /\ \A k \in 1..(a - 1) : s[k] # "@"
       /\ \/ Field(SubSeq(s, i + 1, a - 1), {"/", "@"})
          \/ \E j \in Slashes(s) : i < j /\ j < a /\ Field(SubSeq(s, i + 1, j - 1), {"/", "@"})

\* The same, optionally behind http(s)://{host}/ .
ActionForm(s) ==
    \/ BareActionForm(s)
    \/ \E k \in 1..Len(Schemas) :
          /\ HasPrefix(s, Schemas[k])
          /\ \E i \in Slashes(s) :
                /\ i > Len(Schemas[k])
                /\ \A j \in Slashes(s) : j > Len(Schemas[k]) => i <= j
                /\ BareActionForm(SubSeq(s, i + 1, Len(s)))

\* A step of caller p with a `uses` value outside the form.
MalformedStep(p) ==
    cfg[p].jobType = "Default" /\ cfg[p].uses # NoUses /\ ~ActionForm(cfg[p].uses)

NoFetchAtAll == \A d \in DOMAIN hist.fetches : hist.fetches[d] = 0

\* C11: a step whose uses value is not of the form {org}/{repo}[/{path}]@{ref} with a
\* non-empty ref (optionally behind http(s)://{host}/) makes prepareActionExecutor return
\* the format error; the fetcher is never invoked and no manifest is read.
C11_MalformedActionRejected ==
    \A p \in Procs :
       MalformedStep(p) =>
          /\ NoFetchAtAll
          /\ hist.reads[p] = 0
          /\ ~action[p]
          /\ pc[p] \in {"prepare", "stepsDone"}
          /\ pc[p] = "stepsDone" =>
                /\ result[p] = "error"
                /\ hist.err[p] = ActionFormatError(cfg[p].uses)

C11_Witness ==
    /\ cfg[1].uses = UsesNotARef
    /\ MalformedStep(1)
    /\ pc[1] = "stepsDone"
    /\ hist.err[1].kind = "actionFormat"

\* The ways s reads as {owner}/{repo}/.{platform}/workflows/{filename}@{ref}: owner,
\* repo and platform are non-empty and hold no `/`, the filename is non-empty and holds
\* no `@`; the ref is whatever follows.
WorkflowReadings(s) ==
    LET n == Len(s)
        cuts == {t \in Slashes(s) \X Slashes(s) \X Slashes(s) \X Ats(s) :
                   /\ t[1] < t[2] /\ t[2] + 1 < t[3] /\ t[3] + 10 < t[4]
                   /\ s[t[2] + 1] = "."
                   /\ SubSeq(s, t[3] + 1, t[3] + 10) = WorkflowsDir}
        all == {[Org |-> SubSeq(s, 1, t[1] - 1), Repo |-> SubSeq(s, t[1] + 1, t[2] - 1),
                 GitPlatform |-> SubSeq(s, t[2] + 2, t[3] - 1),
                 Filename |-> SubSeq(s, t[3] + 11, t[4] - 1),
                 Ref |-> SubSeq(s, t[4] + 1, n)] : t \in cuts}
    IN  {w \in all : /\ Field(w.Org, {"/"}) /\ Field(w.Repo, {"/"})
                     /\ Field(w.GitPlatform, {"/"}) /\ Field(w.Filename, {"@"})}

\* The readings with all five fields non-empty.
FullWorkflowReadings(s) == {w \in WorkflowReadings(s) : w.Ref # <<>>}

\* An enabled reusable-workflow job of caller p whose reference has no such reading.
MalformedWorkflowJob(p) ==
    /\ cfg[p].jobType # "Default"
    /\ isEnabled(cfg[p]) = "true"
    /\ FullWorkflowReadings(JobUses(cfg[p])) = {}

\* C12: for an enabled reusable-workflow job, local or remote, whose reference is not of
\* the form {owner}/{repo}/.{platform}/workflows/{filename}@{ref}, Executor() returns the
\* format error; the fetcher is never invoked and no child workflow is planned or run.
C12_MalformedWorkflowRejected ==
    \A p \in Procs :
       MalformedWorkflowJob(p) =>
          /\ NoFetchAtAll
          /\ hist.childRuns = 0
          /\ hist.workflow[p] = NoWorkflow
          /\ pc[p] \in {"Executor", "done"}
          /\ pc[p] = "done" =>
                /\ result[p] = "error"
                /\ hist.err[p] = WorkflowFormatError(JobUses(cfg[p]))

\* A remote reusable-workflow job of caller p whose reference has been parsed or refused.
ParsedRemoteJob(p) ==
    /\ cfg[p].jobType = "ReusableWorkflowRemote"
    /\ isEnabled(cfg[p]) = "true"
    /\ pc[p] # "Executor"

\* C13: newRemoteReusableWorkflow returns a parsed reference exactly for the strings of
\* the form {owner}/{repo}/.{platform}/workflows/{filename}@{ref} with each of the five
\* fields non-empty, the fields being the corresponding substrings; for every other
\* string it returns none.
C13_ParsedExactlyWithFiveFields ==
    \A p \in Procs :
       ParsedRemoteJob(p) =>
          LET full == FullWorkflowReadings(cfg[p].uses)
          IN  IF full # {} THEN hist.workflow[p] \in full
              ELSE hist.workflow[p] = NoWorkflow

\* C14: a job whose uses value is a local reusable-workflow reference beginning with ./
\* is run from the path with the ./ stripped and the fetcher is never invoked for it,
\* whether or not its cache directory exists.
C14_LocalWorkflowNeverFetched ==
    \A p \in Procs :
       (cfg[p].jobType = "ReusableWorkflowLocal" /\ HasPrefix(cfg[p].uses, <<".", "/">>)) =>
          /\ pc[p] # "rwClone"
          /\ Resolvable(cfg[p]) => hist.fetches[TargetDir(cfg[p])] = 0

\* Credentials with exactly one of username and password non-empty after interpolation.
PartialCredentials(kind) ==
    LET creds == Credentials(kind)
    IN  /\ ~creds.isNil
        /\ (Interpolate(MapGet(creds.m, "username")) = "")
             # (Interpolate(MapGet(creds.m, "password")) = "")

\* A job run in a container one of whose services declares such credentials.
PartialServiceJob(p) ==
    /\ cfg[p].jobType = "Default"
    /\ isEnabled(cfg[p]) = "true"
    /\ ~IsHostEnv(cfg[p])
    /\ \E s \in cfg[p].services : PartialCredentials(cfg[p].svcCreds[s])

StartOps == {"pull", "netCreate", "create", "start", "copy"}

\* C15: if a service of the job declares credentials with exactly one of username and
\* password non-empty after interpolation, startJobContainer returns an error and no
\* pull, network-create, create or start operation is issued for any container.
C15_PartialServiceCredentialsFail ==
    \A p \in Procs :
       PartialServiceJob(p) =>
          /\ \A op \in StartOps : jobOp[op] = "idle"
          /\ \A i \in Handles : svcOp[i] = IdleSvcOps
          /\ network = Nil
          /\ JobContainer = NoContainer
          /\ pc[p] \in {"Executor", "startContainer", "done"}
          /\ pc[p] = "done" =>
                /\ result[p] = "error"
                /\ hist.err[p].kind \in {"credentials", "serviceCredentials"}

C15_Witness ==
    /\ PartialServiceJob(1)
    /\ cfg[1].services = ServiceIds
    /\ \E s \in ServiceIds : cfg[1].svcCreds[s] = "secretMissing"
    /\ pc[1] = "done"
    /\ hist.err[1].kind = "serviceCredentials"
    /\ Len(ServiceContainers) = 1

\* Nothing has been provisioned, fetched or run.
NothingRun ==
    /\ jobOp = IdleJobOps
    /\ ServiceContainers = <<>>
    /\ JobContainer = NoContainer
    /\ network = Nil
    /\ scratchDir = "absent"
    /\ NoFetchAtAll
    /\ hist.stepsRun = 0
    /\ hist.childRuns = 0

\* C16: a Default job whose condition is true but for which no platform image resolves
\* makes Executor() return success without provisioning or running a step; for the
\* reusable-workflow kinds the image is not consulted.
C16_NoImageSkipsDefaultJobOnly ==
    \A p \in Procs :
       (pc[p] # "off" /\ EvalBool(cfg[p].ifExpr) = "true" /\ platformImage(cfg[p]) = "") =>
          IF cfg[p].jobType = "Default"
          THEN /\ NothingRun
               /\ pc[p] \in {"Executor", "done"}
               /\ pc[p] = "done" => result[p] = "ok" /\ hist.err[p] = NoError
          ELSE /\ pc[p] # "Executor" /\ Resolvable(cfg[p]) => hist.workflow[p] # NoWorkflow
               /\ (pc[p] = "done" /\ result[p] = "ok") => hist.childRuns = 1

C16_Witness ==
    /\ cfg[1].jobType = "Default"
    /\ EvalBool(cfg[1].ifExpr) = "true"
    /\ cfg[1].uses # NoUses
    /\ platformImage(cfg[1]) = ""
    /\ pc[1] = "done"
    /\ result[1] = "ok"

\* C17: when the job's condition cannot be evaluated, Executor() returns an error whose
\* message holds the raw text of the expression, and neither the job executor nor any
\* provisioning or fetch is run.
C17_ConditionErrorReturned ==
    \A p \in Procs :
       (pc[p] # "off" /\ EvalBool(cfg[p].ifExpr) = "error") =>
          /\ NothingRun
          /\ hist.workflow[p] = NoWorkflow
          /\ pc[p] \in {"Executor", "done"}
          /\ pc[p] = "done" =>
                /\ result[p] = "error"
                /\ hist.err[p].kind = "ifExpression"
                /\ hist.err[p].expr = cfg[p].ifExpr

C17_Witness ==
    /\ cfg[1].ifExpr = "${{ fromJSON( }}"
    /\ cfg[1].jobType = "ReusableWorkflowRemote"
    /\ pc[1] = "done"
    /\ hist.err[1].kind = "ifExpression"

\* The image the stated priority gives: the container spec's interpolated image; else
\* the picker's non-empty result; else the table entry of the first label, lower-cased,
\* that has a non-empty one; else none.
PriorityImage(c) ==
    LET labels == [i \in 1..Len(c.runsOn) |-> ToLower(InterpolateLabel(c.runsOn[i]))]
        hits == {i \in 1..Len(labels) :
                   labels[i] \in DOMAIN Platforms /\ Platforms[labels[i]] # ""}
        picked == IF c.picker = Nil THEN ""
                  ELSE Pick(c.picker, [i \in 1..Len(c.runsOn) |-> InterpolateLabel(c.runsOn[i])])
    IN  IF c.container # Nil THEN Interpolate(c.container)
        ELSE IF picked # "" THEN picked
        ELSE IF hits # {} THEN Platforms[labels[Min(hits)]]
        ELSE ""

\* C18: platformImage resolves in strict priority: the interpolated image of the job's
\* container spec and nothing else; otherwise the picker's result when the picker is set
\* and returns non-empty; otherwise the image of the first runs-on label, in declared
\* order and lower-cased, with a non-empty entry in the platform table; otherwise empty.
\* The job is skipped, run on the host or run in a container of that image accordingly.
C18_PlatformImagePriority ==
    \A p \in Procs :
       (cfg[p].jobType = "Default" /\ EvalBool(cfg[p].ifExpr) = "true"
          /\ pc[p] \notin {"off", "Executor"}) =>
          LET image == PriorityImage(cfg[p])
          IN  IF image = ""
              THEN pc[p] = "done" /\ result[p] = "ok" /\ JobContainer = NoContainer
              ELSE \/ pc[p] = "startContainer" /\ JobContainer = NoContainer
                   \/ pc[p] = "done" /\ result[p] = "error" /\ JobContainer = NoContainer
                   \/ /\ JobContainer.kind = (IF image = SelfHosted THEN "host" ELSE "docker")
                      /\ JobContainer.kind = "docker" => JobContainer.image = image

C18_Witness ==
    /\ cfg[1].container = Nil
    /\ cfg[1].picker = "macOnly"
    /\ cfg[1].runsOn = <<LabelWin, LabelExpr>>
    /\ JobContainer.kind = "docker"
    /\ JobContainer.image = "ubuntu:act"
    /\ jobOp.start = "ok"

\* A step of caller p whose fetch has returned (once: the action is not resolved twice).
FetchReturned(p) ==
    /\ cfg[p].jobType = "Default"
    /\ Resolvable(cfg[p])
    /\ hist.fetches[TargetDir(cfg[p])] = 1
    /\ pc[p] \notin {"prepare", "sarClone"}

\* C19: in prepareActionExecutor the manifest is read if and only if the fetch succeeded
\* or failed with the force-needed condition; an abbreviated-SHA condition returns an
\* error that names the full SHA and any other fetch error is returned unchanged, and in
\* both cases the manifest is never read and the action stays unresolved.
C19_ManifestReadIffFetchUsable ==
    \A p \in Procs :
       /\ (cfg[p].jobType = "Default" /\ pc[p] = "readAction") =>
             hist.fetchErr[p].kind \in {"none", "gogit.ErrForceNeeded"}
       /\ (FetchReturned(p) /\ pc[p] # "readAction") =>
             CASE hist.fetchErr[p].kind \in {"none", "gogit.ErrForceNeeded"} ->
                    hist.reads[p] = 1
               [] hist.fetchErr[p].kind = "git.ErrShortRef" ->
                    /\ hist.reads[p] = 0 /\ ~action[p]
                    /\ result[p] = "error"
                    /\ hist.err[p].kind = "shortRef"
                    /\ hist.err[p].commit = hist.fetchErr[p].commit
               [] OTHER ->
                    /\ hist.reads[p] = 0 /\ ~action[p]
                    /\ result[p] = "error"
                    /\ hist.err[p] = hist.fetchErr[p]

C19_Witness ==
    /\ FetchReturned(1)
    /\ hist.fetchErr[1].kind = "git.ErrShortRef"
    /\ hist.err[1].commit = FullCommit
    /\ pc[1] = "stepsDone"

\* A step of caller p that uses the checkout action with its repository and ref inputs
\* each unset or equal to the trigger context's.
LocalCheckoutStep(p) ==
    /\ cfg[p].jobType = "Default"
    /\ pc[p] # "off"
    /\ newRemoteAction(cfg[p].uses).Org = <<"a", "c", "t", "i", "o", "n", "s">>
    /\ newRemoteAction(cfg[p].uses).Repo = <<"c", "h", "e", "c", "k", "o", "u", "t">>
    /\ cfg[p].withRepository \in {Nil, GithubRepository}
    /\ cfg[p].withRef \in {Nil, GithubRef}

\* C20 as stated: for such a step no fetch is made and the action is run in no stage;
\* the main stage copies the workspace directory into the job environment.
C20_LocalCheckoutCopiesWorkspace ==
    \A p \in Procs :
       LocalCheckoutStep(p) =>
          /\ NoFetchAtAll
          /\ hist.reads[p] = 0
          /\ hist.stepsRun = 0
          /\ pc[p] \in {"prepare", "stageBody", "stepsDone"}
          /\ pc[p] = "stepsDone" => hist.copyDir = 1

\* C20, amended: the same for such a step when Config.NoSkipCheckout is not set, and the
\* main stage copies the workspace directory unless Config.BindWorkdir is set, in which
\* case it does nothing.
C20_LocalCheckoutSkippedUnlessConfigured ==
    \A p \in Procs :
       (LocalCheckoutStep(p) /\ ~cfg[p].noSkipCheckout) =>
          /\ NoFetchAtAll
          /\ hist.reads[p] = 0
          /\ hist.stepsRun = 0
          /\ ~action[p]
          /\ pc[p] \in {"prepare", "stageBody", "stepsDone"}
          /\ hist.copyDir = (IF pc[p] = "stepsDone" /\ ~cfg[p].bindWorkdir THEN 1 ELSE 0)
          /\ (pc[p] = "stepsDone" /\ cfg[p].bindWorkdir) => result[p] = "none"

C20_Witness ==
    /\ LocalCheckoutStep(1)
    /\ cfg[1].withRepository = GithubRepository
    /\ cfg[1].withRef = Nil
    /\ ~cfg[1].noSkipCheckout
    /\ ~cfg[1].bindWorkdir
    /\ pc[1] = "stepsDone"
    /\ hist.copyDir = 1

\* C22: two calls of GetBindsAndMounts in a row on one Run Context, nothing being called
\* in between, return the same list of binds and the same mounts, also when the daemon
\* socket setting was empty before the first call.
C22_BindsAndMountsRepeatable ==
    \A p \in Procs : \A i \in CallsOf(p, "GetBindsAndMounts") :
       (i + 1) \in CallsOf(p, "GetBindsAndMounts")
          => /\ calls[p][i + 1].binds = calls[p][i].binds
             /\ calls[p][i + 1].mounts = calls[p][i].mounts

\* Two calls in a row, the first one made with an empty daemon-socket setting, for a job
\* with volumes of both kinds.
C22_Witness ==
    \E p \in Procs : \E i \in CallsOf(p, "GetBindsAndMounts") :
       /\ (i + 1) \in CallsOf(p, "GetBindsAndMounts")
       /\ calls[p][i].socket = <<>>
       /\ Len(calls[p][i + 1].binds) > 1

\* C26: the environment every call of GetEnv returns maps ACT to "true", whatever the
\* layers declare and whatever rc.Env held before the call.
C26_ActAlwaysTrue ==
    \A p \in Procs : \A i \in CallsOf(p, "GetEnv") :
       /\ KeyACT \in DOMAIN calls[p][i].ret
       /\ calls[p][i].ret[KeyACT] = ValueTrue

\* GetEnv was called on an environment that was set without ACT, and on a Run Context
\* whose configuration declares ACT with another value.
C26_Witness ==
    \E p \in Procs : \E i, j \in CallsOf(p, "GetEnv") :
       /\ ~calls[p][i].before.isNil
       /\ \/ KeyACT \notin DOMAIN calls[p][i].before.m
          \/ /\ calls[p][j].before.isNil
             /\ KeyACT \in DOMAIN calls[p][j].layers.config
             /\ calls[p][j].layers.config[KeyACT] # ValueTrue

\* The value the layers give a variable: the configuration's, else the job's, else the
\* workflow's.
LayerValue(ly, k) ==
    IF k \in DOMAIN ly.config THEN ly.config[k]
    ELSE IF k \in DOMAIN ly.job THEN ly.job[k]
    ELSE ly.workflow[k]

Layered(ly) ==
    [k \in DOMAIN ly.workflow \cup DOMAIN ly.job \cup DOMAIN ly.config |-> LayerValue(ly,
          k)]

Marked(m) == [k \in DOMAIN m \cup {KeyACT} |-> IF k = KeyACT THEN ValueTrue ELSE m[k]]

C28_AmbientNeverOverrides ==
    \A p \in Procs : \A i \in CallsOf(p, "startHostEnvironment") :
       LET e == calls[p][i]
       IN  /\ \A k \in DOMAIN e.before.m : k \in DOMAIN e.ret /\ e.ret[k] = e.before.m[k]
           /\ \A k \in DOMAIN e.ret \ DOMAIN e.before.m :
                 \E n \in 1..Len(environ) :
                    Cut(environ[n]).ok /\ Cut(environ[n]).k = k /\ Cut(environ[n]).v = e.ret[k]

\* The host environment was started with a process environment that has a variable the
\* Run Context holds with another value, and one it does not hold.
C28_Witness ==
    \E p \in Procs : \E i \in CallsOf(p, "startHostEnvironment") :
       LET e == calls[p][i]
       IN  /\ \E n \in 1..Len(environ) :
                 /\ Cut(environ[n]).ok
                 /\ Cut(environ[n]).k \in DOMAIN e.before.m
                 /\ Cut(environ[n]).v # e.before.m[Cut(environ[n]).k]
           /\ DOMAIN e.ret # DOMAIN e.before.m

\* C30: every clone request that prepareActionExecutor issues carries the empty token,
\* whatever token the trigger context or the configuration holds.
C30_CloneTokenEmpty == \A r \in hist.requests : r.input.Token = ""

\* A request was issued for an action whose host was replaced by github.com, under a
\* configuration that holds a token for it and a token of the triggering instance.
C30_Witness ==
    \E r \in hist.requests :
       /\ cfg[r.proc].token # ""
       /\ GithubToken(cfg[r.proc], newRemoteAction(cfg[r.proc].uses)) = "gh-token"
       /\ HasPrefix(r.input.URL, <<"h", "t", "t", "p", "s", ":", "/", "/", "g", "i", "t",
             "h", "u", "b", ".", "c", "o", "m", "/">>)
       /\ cfg[r.proc].defaultURLs[1] # GithubCom

\* What the pre or the main stage st of p's step did, in order.
StageTrace(p, st) == SelectSeq(hist.trace[p], LAMBDA e : e.stage = st)

\* C24: in the pre and in the main stage of a remote-action step, the condition is
\* evaluated and the body is run only after the action's resolution completed in that
\* stage, and in a stage whose resolution failed neither happens.
C24_ResolutionBeforeStage ==
    \A p \in Procs : \A st \in {"pre", "main"} :
       LET t == StageTrace(p, st)
       IN  \A i \in 1..Len(t) :
              t[i].ev \in {"cond", "body"} =>
                 /\ \E j \in 1..(i - 1) : t[j].ev = "resolved"
                 /\ \A j \in 1..Len(t) : t[j].ev # "failed"

\* The main stage of a step fetched the action, read its manifest, evaluated its
\* condition and ran its body, in that order, after a pre stage that was resolved from
\* what it left.
C24_Witness ==
    \E p \in Procs :
       /\ hist.reads[p] = 1
       /\ <<"resolved", "cond", "body">> \in
             {[i \in 1..Len(StageTrace(p, st)) |-> StageTrace(p, st)[i].ev] :
                st \in {"pre", "main"}}
       /\ Len(StageTrace(p, "pre")) > 0 /\ Len(StageTrace(p, "main")) = 3

\* The calls of getCompositeRunContext on p's step, in order.
CompositeCalls(p) ==
    SelectSeq(calls[p], LAMBDA e : e.op = "getCompositeRunContext")

\* C25: every call of getCompositeRunContext on one step returns the same child, whose
\* step list was built once; after every call the child's environment is the one
\* computed from the parent's state at that call and its extra path is the parent's.
C25_CompositeChildRefreshed ==
    \A p \in Procs :
       LET t == CompositeCalls(p)
       IN  \A i \in 1..Len(t) :
              /\ ~t[i].ret.isNil
              /\ t[i].ret.id = t[1].ret.id
              /\ t[i].ret.built = 1
              /\ t[i].ret.dir = t[1].ret.dir
              /\ t[i].ret.Env = evaluateCompositeInputAndEnv(t[i].parentEnv)
              /\ t[i].ret.ExtraPath = t[i].parentExtraPath
              /\ i = Len(t) => compositeRunContext[p] = t[i].ret

\* A step asked for its child three times, and between two of the calls the parent's
\* environment and its extra path both changed.
C25_Witness ==
    \E p \in Procs :
       LET t == CompositeCalls(p)
       IN  /\ Len(t) = 3
           /\ \E i \in 1..2 :
                 /\ t[i].parentEnv # t[i + 1].parentEnv
                 /\ t[i].parentExtraPath # t[i + 1].parentExtraPath
                 /\ t[i + 1].parentExtraPath # <<>>

\* The directories p's step used: fetched into, run from, and given to the child.
StepDirs(p) ==
    hist.dirs[p].prepare \cup hist.dirs[p].main
       \cup {CompositeCalls(p)[i].ret.dir : i \in 1..Len(CompositeCalls(p))}

ServiceStartFailed ==
    \E i \in Handles : \E k \in 1..Len(ServicePipeline) : svcOp[i][ServicePipeline[k]] = "err"

\* C23: the job container's create is issued only after every service container's start
\* returned successfully; when a pull, create or start of a service fails, the parallel
\* start returns only after every service's pipeline has returned, startJobContainer
\* returns an error, and the job container is neither created nor started.
C23_JobContainerAfterServices ==
    \A p \in Running :
        DockerJob =>
            /\ jobOp.create # "idle" => \A i \in Handles : svcOp[i].start = "ok"
            /\ ServiceStartFailed => jobOp.create = "idle" /\ jobOp.start = "idle"
            /\ (ServiceStartFailed /\ pc[p] # "startServices") =>
                  /\ \A i \in Handles : ServicePipelineDone(svcOp[i])
                  /\ \A i \in Handles : RunningServiceOp(svcOp[i]) = "none"
                  /\ pc[p] = "done"
                  /\ result[p] = "error"

\* startJobContainer has returned an error after one service failed to be created while
\* the other was started.
C23_Witness ==
    /\ DockerJob /\ Len(ServiceContainers) = 2
    /\ \E p \in Running : pc[p] = "done" /\ result[p] = "error"
    /\ \E i, j \in Handles : svcOp[i].create = "err" /\ svcOp[j].start = "ok"
    /\ jobOp.create = "idle"

\* Two Run Contexts of the same workflow and job under the same configuration, spawned by
\* two different caller jobs.
SameJobOfTwoCallers(p, q) ==
    /\ cfg[p].caller # <<>> /\ cfg[q].caller # <<>>
    /\ cfg[p].caller # cfg[q].caller
    /\ [cfg[p] EXCEPT !.caller = <<>>] = [cfg[q] EXCEPT !.caller = <<>>]

\* C29: two Run Contexts of the same reusable workflow and job name that two different
\* caller jobs spawned under the same configuration get distinct job container names.
C29_DistinctNamesPerCaller ==
    \A p, q \in Procs :
       SameJobOfTwoCallers(p, q) =>
          \A i \in CallsOf(p, "jobContainerName"), j \in CallsOf(q, "jobContainerName") :
             calls[p][i].ret # calls[q][j].ret

\* C31: once prepareActionExecutor has resolved a step's action, a later invocation for
\* the step returns success without a fetch or a manifest read: the step has caused one
\* fetch and one manifest read, and no invocation of it has failed.
C31_ResolvedOnce ==
    \A p \in Procs :
       (remoteAction[p] /\ action[p]) =>
          /\ hist.reads[p] = 1
          /\ hist.fetches[TargetDir(cfg[p])] = 1
          /\ \A i \in 1..Len(hist.trace[p]) : hist.trace[p][i].ev # "failed"

\* A step resolved its action in the pre stage and was invoked again for the main
\* stage, which ran.
C31_Witness ==
    \E p \in Procs :
       /\ remoteAction[p] /\ action[p]
       /\ Len(StageTrace(p, "pre")) > 0 /\ StageTrace(p, "pre")[1].ev = "resolved"
       /\ Len(StageTrace(p, "main")) > 0 /\ StageTrace(p, "main")[1].ev = "resolved"
       /\ hist.stepsRun = 1

\* The lock is held by a caller that is inside its guarded executor, or by none.
LockHeldInsideGuard ==
    \A p \in Procs : executorLock = p => pc[p] \in {"rwStat", "rwClone", "rwUnlock"}

\* C32: the fetch lock is released on every exit of a guarded fetch, success or error,
\* and so, every fetch terminating, every caller waiting for the lock acquires it.
C32_LockReleasedAndAcquired ==
    /\ []LockHeldInsideGuard
    /\ \A p \in Procs : (pc[p] = "rwLock") ~> (pc[p] # "rwLock")

\* A caller holds the lock after the guarded fetch of another caller failed.
C32_Witness ==
    \E p, q \in Procs :
       /\ p # q
       /\ executorLock = p
       /\ pc[q] = "done" /\ result[q] = "error" /\ hist.childRuns = 0
       /\ cfg[q].jobType # "Default"

\* The callers above q: the caller of its workflow, that caller's caller, and so on.
RECURSIVE Ancestors(_)
Ancestors(q) ==
    IF cfg[q].parent = 0 THEN {} ELSE {cfg[q].parent} \cup Ancestors(cfg[q].parent)

\* No caller that plans or runs its fetched workflow holds the lock, and no caller holds
\* it while a job of the workflow it called, directly or not, waits for it.
LockFreeWhileRunning ==
    /\ \A p \in Procs : pc[p] = "rwRun" => executorLock # p
    /\ \A q \in Procs : pc[q] = "rwLock" => executorLock \notin Ancestors(q)

\* C33: the fetch lock is held only while the existence check and the fetch run, never
\* while the fetched workflow is planned and executed; a reusable workflow called from
\* within a reusable workflow, at any depth, does not wait for a lock its own callers
\* hold, and takes the lock.
C33_LockNotHeldWhileRunning ==
    /\ []LockFreeWhileRunning
    /\ \A q \in Procs :
          (cfg[q].parent # 0 /\ pc[q] = "rwLock") ~> (executorLock = q)

\* A job of a called workflow holds the lock while its caller runs the workflow.
C33_Witness ==
    \E q \in Procs :
       /\ cfg[q].parent # 0
       /\ executorLock = q
       /\ pc[cfg[q].parent] = "rwRun"
       /\ hist.fetches[TargetDir(cfg[cfg[q].parent])] = 1

\* C34: the status getJobContext reports is "failure" exactly when some entry of the
\* step results has the conclusion failure, and "success" otherwise, also when no step
\* has run; the call leaves the step results as they were.
C34_JobStatusFromConclusions ==
    \A p \in Procs : \A i \in CallsOf(p, "getJobContext") :
       LET e == calls[p][i]
           failed == {id \in DOMAIN e.before : e.before[id].Conclusion = "failure"}
       IN  /\ e.Status \in {"failure", "success"}
           /\ e.Status = "failure" <=> failed # {}
           /\ e.after = e.before
           /\ i = Len(calls[p]) => StepResults[p] = e.before

\* The status was asked for a job with a step that failed and was continued on error
\* and no step with the conclusion failure.
C34_Witness ==
    \E p \in Procs : \E i \in CallsOf(p, "getJobContext") :
       LET e == calls[p][i]
       IN  /\ e.Status = "success"
           /\ \E id \in DOMAIN e.before : e.before[id].Outcome = "failure"
           /\ \E id \in DOMAIN e.before : e.before[id].Conclusion = "skipped"

\* The handles of rc.ServiceContainers that were made for service s.
HandlesOf(s) == {i \in Handles : ServiceContainers[i].svc = s}

\* C35: however often the job container is started on a Run Context, the Run Context
\* holds at most one service container handle per declared service, exactly one once a
\* start has made the job container handle, so that no service is pulled, created or
\* started more than once in a start.
C35_OneHandlePerService ==
    \A p \in Procs : \A s \in cfg[p].services :
       /\ Cardinality(HandlesOf(s)) <= 1
       /\ JobContainer # NoContainer => Cardinality(HandlesOf(s)) = 1
       /\ \A op \in {"pull", "pull2", "create", "start"} :
             Cardinality({i \in HandlesOf(s) : svcOp[i][op] # "idle"}) <= 1

\* startJobContainer of p has returned an error of the credential resolution.
CredentialFailure(p) ==
    pc[p] = "done" /\ hist.err[p].kind \in {"credentials", "serviceCredentials"}

\* C36: when startJobContainer fails while it resolves the credentials of the job
\* container or of a service, the Run Context is as it was before the call: no job
\* container handle is set, no cleanup is registered and no service container handle
\* has been added.
C36_CredentialFailureLeavesContext ==
    \A p \in Procs :
       CredentialFailure(p) =>
          /\ JobContainer = NoContainer
          /\ cleanUpJobContainer = Nil
          /\ ServiceContainers = <<>>

====
